---- MODULE Spec2Model ----
(***************************************************************************)
(* Episode controller of gibson2/envs/locomotor_env.py: NavigateEnv (base), *)
(* NavigateRandomEnv (random) and InteractiveNavigateEnv (multi-stage).     *)
(*                                                                          *)
(* Units.  Lengths are integers in units of 0.1 m (dist_tol 0.2 is 2, the   *)
(* tip-over bound 0.1 is 1).  Door joint angles are integers in units of    *)
(* pi/2, so np.pi is 2 and the default door_angle of 90 degrees is -1.      *)
(* Floats (normalized potential, reward) are exact rationals <<num, den>>   *)
(* extended with <<1,0>> (inf), <<-1,0>> (-inf) and <<0,0>> (nan), the      *)
(* values numpy's float64 division produces for a zero divisor.             *)
(*                                                                          *)
(* A call that raises leaves the assignments made before the raise in       *)
(* place; ret records the exception instead of a returned tuple.            *)
(***************************************************************************)
EXTENDS Integers, Sequences, FiniteSets, TLC

VARIABLES
    cfg,                  \* automatic_reset, config['task'], max_step, variant
    phys,                 \* what the physics engine reports now
    live,                 \* number of constraints alive in the physics engine
    stage,                \* self.stage
    prev_stage,           \* self.prev_stage
    cid,                  \* self.cid
    initial_potential,    \* self.initial_potential (Unset before reset())
    normalized_potential, \* self.normalized_potential (Unset before reset())
    current_step,         \* self.current_step (NoStep before reset())
    ret,                  \* outcome of the most recent step() / reset() call
    initial_pos,          \* self.initial_pos
    target_pos,           \* self.target_pos
    config,               \* self.config as load() / reload() read it
    loaded,               \* the attributes load() / reload() assign
    place,                \* where reset_initial_and_target_pos() stands
    peer,                 \* a second environment object of the orchestrator
    sim,                  \* the timesteps and where run_simulation() stands
    run                   \* the float64 shaping terms summed over a run of steps

vars == <<cfg, phys, live, stage, prev_stage, cid, initial_potential,
          normalized_potential, current_step, ret, initial_pos, target_pos,
          config, loaded, place, peer, sim, run>>

\* the state only the specifications about load(), about the placement
\* loops, about two objects and about the sub-ticks use
others == <<config, loaded, place, peer, sim, run>>

----------------------------------------------------------------------------
(* Bounds of the model *)

MaxDist == 2
MaxHandleDist == 3
MaxSteps == 3
MaxStepCfg == 2
MaxContacts == 2
MantissaBits == 3
MaxPending == 2

(* Program constants *)

DistTol == 2
HandleTol == 2
TipBound == 1
Pi == 2
DoorAngleDeg == 90
SuccessReward == 10
PotentialRewardWeight == 10
BaseLink == -1
DoorAxisLink == 1
DoorHandleLink == 2
EndEffectorLink == 34

----------------------------------------------------------------------------
(* Optional values: an absent attribute / dict key is the empty tuple *)

None == <<>>
Some(x) == <<x>>
Unset == <<>>
NoStep == -1
NoCid == "None"
TheCid == "cid"

----------------------------------------------------------------------------
(* float64 arithmetic on exact extended rationals *)

Abs(x) == IF x < 0 THEN -x ELSE x

Sign(x) == IF x < 0 THEN -1 ELSE IF x > 0 THEN 1 ELSE 0

RECURSIVE Gcd(_, _)
Gcd(a, b) == IF b = 0 THEN a ELSE Gcd(b, a % b)

QNorm(n, d) ==
    IF d = 0 THEN <<Sign(n), 0>>
    ELSE LET nn == IF d < 0 THEN -n ELSE n
             dd == Abs(d)
             g  == Gcd(Abs(nn), dd)
         IN  <<nn \div g, dd \div g>>

Q(n) == <<n, 1>>
Zero == Q(0)
One == Q(1)
NaN == <<0, 0>>

QNeg(a) == <<-a[1], a[2]>>

QAdd(a, b) ==
    IF a[2] = 0 /\ b[2] = 0
    THEN (IF a = b THEN a ELSE NaN)
    ELSE QNorm(a[1] * b[2] + b[1] * a[2], a[2] * b[2])

QSub(a, b) == QAdd(a, QNeg(b))

QMul(a, b) == QNorm(a[1] * b[1], a[2] * b[2])

QDiv(a, b) == QNorm(a[1] * b[2], a[2] * b[1])

QHalf(n) == QNorm(n, 2)

\* comparisons of finite values
QLe(a, b) == a[1] * b[2] <= b[1] * a[2]

QMin(a, b) == IF QLe(a, b) THEN a ELSE b

QMax(a, b) == IF QLe(a, b) THEN b ELSE a

----------------------------------------------------------------------------
(* Rounding.  Every float64 operation returns the representable value      *)
(* nearest to the exact result, ties to the even mantissa.  The mantissa   *)
(* is modelled at MantissaBits bits instead of 53: the representable       *)
(* values are m * 2^e with 2^(MantissaBits-1) <= m < 2^MantissaBits.       *)

RECURSIVE Pow2(_)
Pow2(n) == IF n = 0 THEN 1 ELSE 2 * Pow2(n - 1)

\* the integer nearest to a / d (a >= 0, d > 0), ties to even
RoundHalfEven(a, d) ==
    LET q == a \div d
        r == a % d
    IN  IF 2 * r < d THEN q
        ELSE IF 2 * r > d THEN q + 1
        ELSE IF q % 2 = 0 THEN q ELSE q + 1

\* the representable value nearest to (a / d) * 2^e, for a, d > 0
RECURSIVE FlScaled(_, _, _)
FlScaled(a, d, e) ==
    IF a >= d * Pow2(MantissaBits) THEN FlScaled(a, 2 * d, e + 1)
    ELSE IF a < d * Pow2(MantissaBits - 1) THEN FlScaled(2 * a, d, e - 1)
    ELSE IF e >= 0 THEN Q(RoundHalfEven(a, d) * Pow2(e))
    ELSE QNorm(RoundHalfEven(a, d), Pow2(-e))

\* the float an exact result is rounded to
Fl(q) ==
    IF q[2] = 0 \/ q[1] = 0 THEN q
    ELSE IF q[1] < 0 THEN QNeg(FlScaled(-q[1], q[2], 0))
    ELSE FlScaled(q[1], q[2], 0)

----------------------------------------------------------------------------
(* Configuration and physics readings *)

Variants == {"base", "random", "interactive"}
Tasks == {"pointgoal", "reaching"}

\* slack_reward, line 67
SlackReward == QNorm(-1, 100)

\* collision_reward_weight: 0.0 unless configured (line 73)
DefaultCollisionWeight == Zero

\* a configured collision_reward_weight: a penalty of 1.0 per step in contact
PenaltyWeight == QNeg(One)

\* 'collision_links', line 74: the agent's links whose contacts are penalized
CollisionLinks == {BaseLink}

\* len(additional_states): the relative target position, with the end
\* effector's for task 'reaching' (lines 229-235); the multi-stage override
\* has position, end effector, yaw and door angle (line 629)
StatesLen(v, t) ==
    IF v = "interactive" THEN 7 ELSE IF t = "reaching" THEN 6 ELSE 3

\* config['additional_states_dim']: 0 when the key is missing (line 54)
StateDims == {0, 3, 6, 7}

\* config['observation_normalizer'] when the key is missing (line 57)
NoNormalizer == <<>>

\* Every configuration a constructor accepts
AllConfigs(variants, resets, tasks, weights, dims, norms, normalizers) ==
    [variant : variants, automatic_reset : resets, task : tasks,
     max_step : {MaxStepCfg}, collision_reward_weight : weights,
     additional_states_dim : dims, normalize_observation : norms,
     observation_normalizer : normalizers]

\* a configuration whose additional_states_dim is the length of the vector
DimsMatch(c) == c.additional_states_dim = StatesLen(c.variant, c.task)

\* The configurations of the default reward weights
Configs ==
    {c \in AllConfigs(Variants, BOOLEAN, Tasks, {DefaultCollisionWeight},
                      StateDims, {FALSE}, {NoNormalizer}) : DimsMatch(c)}

\* The configurations with a collision penalty
PenaltyConfigs ==
    {c \in AllConfigs(Variants, {FALSE}, {"pointgoal"}, {PenaltyWeight},
                      StateDims, {FALSE}, {NoNormalizer}) : DimsMatch(c)}

\* config['observation_normalizer']: [min, max] for each channel of the
\* output.  The state vector's bounds are drawn among representable values
\* around the door angle's range; has_door_handle_in_hand is -1.0 or 1.0,
\* bump False or True.
SensorBounds ==
    {<<Q(-Pi), Zero>>, <<Q(-Pi), Q(-1)>>, <<Q(-1), Zero>>, <<Q(-Pi), QNorm(-5, 4)>>}

Normalizers ==
    [sensor : SensorBounds, auxiliary_sensor : {<<QNeg(One), One>>},
     bump : {<<Zero, One>>}]

\* The configurations with normalize_observation set
NormConfigs ==
    {c \in AllConfigs(Variants, {TRUE}, {"pointgoal"}, {DefaultCollisionWeight},
                      StateDims, {TRUE}, Normalizers) : DimsMatch(c)}

\* The configurations with any additional_states_dim
DimConfigs ==
    AllConfigs(Variants, {FALSE}, Tasks, {DefaultCollisionWeight},
               StateDims, {FALSE}, {NoNormalizer})

DoorAngle == -((DoorAngleDeg * Pi) \div 180)

\* Only the multi-stage variant has a door; only task 'reaching' reads the
\* end effector's distance to the target.  A reading nothing reads is pinned.
\* The base height z is only ever compared with the tip-over bound, and in
\* the multi-stage variant the end effector's distance to the target only
\* with dist_tol: one value on each side of the comparison stands for all.
HeightReadings == {TipBound, TipBound + 1}

\* The end effector and the door handle are two rigid links: the distance
\* between them reads at least one unit.
\* The door joint reads between -pi (where the stage-1 potential is zero)
\* and 0 (where reset puts it), in steps of pi/2.
AngleReadings == (-Pi)..0

EeDistReadings(c) ==
    IF c.task # "reaching" THEN {0}
    ELSE IF c.variant = "interactive" THEN {DistTol - 1, DistTol}
    ELSE 0..MaxDist

\* A contact point of p.getContactPoints(bodyA = the agent): elem[2] is the
\* other body, elem[3] the agent's link, elem[4] the other body's link.
\* The door handle or the door leaf against the base, the door handle against
\* the end effector, a wall against the end effector.
ContactEvents ==
    {[bodyB |-> "door", linkA |-> BaseLink, linkB |-> DoorHandleLink],
     [bodyB |-> "door", linkA |-> BaseLink, linkB |-> DoorAxisLink],
     [bodyB |-> "door", linkA |-> EndEffectorLink, linkB |-> DoorHandleLink],
     [bodyB |-> "wall", linkA |-> EndEffectorLink, linkB |-> DoorHandleLink]}

\* run_simulation(): the contact points collected over the sub-ticks of a
\* step (order and repetition do not matter to any reader)
ContactSets == {cl \in SUBSET ContactEvents : Cardinality(cl) <= MaxContacts}

\* With collision_reward_weight 0.0 the collision term is 0.0 whatever was
\* touched, and no observation reflects the contacts: they are pinned to none.
ContactReadings(c) ==
    IF c.collision_reward_weight = Zero THEN {{}} ELSE ContactSets

\* Under the configurations with a collision penalty every step also draws
\* its contact points; there the distances and the door angle are read on a
\* coarse grid: one value on each side of each comparison the code makes
\* (dist < 0.2, angle < door_angle, distance < dist_tol).  Under the
\* configurations with normalization the distances are read on that grid
\* and the door angle, which the state vector carries, on the full one.
Coarse(c) == c.collision_reward_weight # Zero \/ c.normalize_observation

HandleDistReadings(c) ==
    IF c.variant # "interactive" THEN {0}
    ELSE IF Coarse(c) THEN {HandleTol - 1, HandleTol}
    ELSE 1..MaxHandleDist

\* where the handle is when the agent has just been placed
FarHandleDist(c) == IF Coarse(c) THEN HandleTol ELSE MaxHandleDist

DoorAngleReadings(c) ==
    IF c.variant # "interactive" THEN {0}
    ELSE IF Coarse(c) /\ ~c.normalize_observation THEN {-Pi, 0}
    ELSE AngleReadings

RobotDistReadings(c) ==
    IF Coarse(c) THEN {DistTol - 1, DistTol} ELSE 0..MaxDist

Readings(c) ==
    [handle_dist : HandleDistReadings(c),
     door_angle  : DoorAngleReadings(c),
     robot_dist  : RobotDistReadings(c),
     ee_dist     : EeDistReadings(c),
     z           : HeightReadings]

----------------------------------------------------------------------------
(* NavigateEnv.get_position_of_interest / get_potential and the overrides *)

\* l2_distance(self.target_pos, self.get_position_of_interest())
PoiDist(c, ph) ==
    IF c.task = "pointgoal" THEN ph.robot_dist ELSE ph.ee_dist

\* get_potential(): the multi-stage override selects by self.stage
GetPotential(c, stg, ph) ==
    IF c.variant = "interactive"
    THEN CASE stg = 0 -> ph.handle_dist
           [] stg = 1 -> Abs(ph.door_angle + Pi)
           [] stg = 2 -> ph.robot_dist
    ELSE PoiDist(c, ph)

\* Faulty variant: the bonus is also paid at a distance of exactly dist_tol
GoalReachedReward_Inclusive(c, ph) == PoiDist(c, ph) <= DistTol

\* the "goal reached" test of get_reward
GoalReachedReward(c, ph) == PoiDist(c, ph) < DistTol

\* Variant in which the goal only counts once the door reads open
GoalReachedTermination_DoorOpen(c, ph) ==
    PoiDist(c, ph) < DistTol /\ (c.variant = "interactive" => ph.door_angle < DoorAngle)

\* the "goal reached" test of get_termination
GoalReachedTermination(c, ph) == PoiDist(c, ph) < DistTol

\* the "robot flips over" test, shared by the death penalty and termination
FlippedOver(ph) == ph.z > TipBound

----------------------------------------------------------------------------
(* Observations *)

\* NavigateEnv.get_auxiliary_sensor: `raise np.array([])` raises TypeError
\* (an ndarray is no exception); only the multi-stage variant overrides it.
AuxiliarySensorRaises(c) == c.variant # "interactive"

\* get_additional_states(): `assert len(additional_states) ==
\* self.additional_states_dim` (lines 236 and 631)
AdditionalStatesRaises(c) == ~DimsMatch(c)

\* get_state(): the exception it ends in, "" when it returns.  Line 266
\* runs before line 267.
GetStateRaises(c) ==
    IF AdditionalStatesRaises(c) THEN "AssertionError"
    ELSE IF AuxiliarySensorRaises(c) THEN "TypeError"
    ELSE ""

\* `-1 in collision_links`, line 291: the elements are contact points
\* (tuples), and an int equals no tuple
TupleEqualsInt(e, n) == FALSE

BumpChannel(cl) == \E e \in cl : TupleEqualsInt(e, BaseLink)

\* np.clip(x, obs_min, obs_max): minimum(maximum(x, obs_min), obs_max)
Clip(x, lo, hi) == QMin(QMax(x, lo), hi)

\* lines 614-618 for one component x of a channel with bounds b = [min, max]
Normalize(x, b) ==
    LET obs_min == b[1]
        obs_max == b[2]
        obs_avg == Fl(QDiv(Fl(QAdd(obs_max, obs_min)), Q(2)))
        obs_mag == Fl(QDiv(Fl(QSub(obs_max, obs_min)), Q(2)))
    IN  Fl(QDiv(Fl(QSub(Clip(x, obs_min, obs_max), obs_avg)), obs_mag))

\* a bool in arithmetic
BoolValue(b) == IF b THEN One ELSE Zero

\* NavigateEnv.get_state(): what the observation reflects of the world.
\* phys and in_hand are the reading and the stage the channels are computed
\* from; of the vector channels one component each is carried: the door
\* angle of 'sensor' (line 629) and has_door_handle_in_hand of
\* 'auxiliary_sensor' (line 647).
NavigateGetState(stg, ph, cl) ==
    [phys |-> ph, in_hand |-> (stg = 1), bump |-> BumpChannel(cl),
     sensor |-> Q(ph.door_angle),
     auxiliary_sensor |-> IF stg = 1 THEN One ELSE QNeg(One)]

\* InteractiveNavigateEnv.get_state(): it calls NavigateEnv.get_state()
\* without its argument (line 609), which then is the default [], and
\* normalizes every key of the result when normalize_observation is set.
InteractiveGetState(c, stg, ph) ==
    LET state == NavigateGetState(stg, ph, {})
    IN  IF c.normalize_observation
        THEN [state EXCEPT
                !.sensor = Normalize(@, c.observation_normalizer.sensor),
                !.auxiliary_sensor = Normalize(@, c.observation_normalizer.auxiliary_sensor),
                !.bump = Normalize(BoolValue(@), c.observation_normalizer.bump)]
        ELSE state

GetState(c, stg, ph, cl) ==
    IF c.variant = "interactive" THEN InteractiveGetState(c, stg, ph)
    ELSE NavigateGetState(stg, ph, cl)

----------------------------------------------------------------------------
(* The outcome of a call *)

EmptyInfo == [success |-> None, episode_length |-> None, last_observation |-> None]

NoTerms ==
    [slack |-> Zero, milestone |-> Zero, shaping |-> Zero, energy |-> Zero, stall |-> Zero,
     collision |-> Zero, success |-> Zero, failure |-> Zero]

\* at, stage_at, prev_at, pot_at: the physics reading after the step's
\* sub-ticks, the stages the reward was computed with and the potential
\* state right after get_reward (an automatic reset overwrites all of them);
\* contacts: the contact points the call was given or collected.
RetNone ==
    [call |-> "none", raised |-> "", obs |-> None, reward |-> None,
     terms |-> NoTerms, done |-> FALSE, info |-> EmptyInfo, at |-> None,
     stage_at |-> None, prev_at |-> None, pot_at |-> None, step_at |-> None,
     contacts |-> {}, reset_called |-> FALSE]

Raised(call, exc) == [RetNone EXCEPT !.call = call, !.raised = exc]

\* the value of `reward` once every `reward +=` of get_reward has run
SumTerms(t) ==
    QAdd(QAdd(QAdd(QAdd(QAdd(QAdd(QAdd(t.slack, t.milestone), t.shaping), t.energy),
                        t.stall), t.collision), t.success), t.failure)

----------------------------------------------------------------------------
(* InteractiveNavigateEnv.step, lines 663-684: the stage transitions, run on *)
(* the physics state the previous call left, before the action is applied  *)

\* Faulty variant: the navigate stage falls back to the open-door stage when the door
\* reads closed again
StageTransition_FallBack(stg, c, lv, ph) ==
    LET grab  == stg = 0 /\ ph.handle_dist < HandleTol
        s1    == IF grab THEN 1 ELSE stg
        c1    == IF grab THEN TheCid ELSE c
        l1    == IF grab THEN lv + 1 ELSE lv
        open  == s1 = 1 /\ ph.door_angle < DoorAngle
        back  == stg = 2 /\ ph.door_angle >= DoorAngle
    IN  IF open THEN [raised |-> FALSE, stage |-> 2, cid |-> NoCid, live |-> l1 - 1]
        ELSE IF back THEN [raised |-> FALSE, stage |-> 1, cid |-> TheCid, live |-> lv + 1]
        ELSE [raised |-> FALSE, stage |-> s1, cid |-> c1, live |-> l1]

StageTransition(stg, c, lv, ph) ==
    LET grab  == stg = 0 /\ ph.handle_dist < HandleTol
        bad1  == grab /\ c # NoCid                   \* assert self.cid is None
        s1    == IF grab THEN 1 ELSE stg
        c1    == IF grab THEN TheCid ELSE c
        l1    == IF grab THEN lv + 1 ELSE lv
        open  == s1 = 1 /\ ph.door_angle < DoorAngle
        bad2  == open /\ c1 = NoCid                  \* assert self.cid is not None
        s2    == IF open THEN 2 ELSE s1
        c2    == IF open THEN NoCid ELSE c1
        l2    == IF open THEN l1 - 1 ELSE l1
    IN  IF bad1 THEN [raised |-> TRUE, stage |-> stg, cid |-> c, live |-> lv]
        ELSE IF bad2 THEN [raised |-> TRUE, stage |-> s1, cid |-> c1, live |-> l1]
        ELSE [raised |-> FALSE, stage |-> s2, cid |-> c2, live |-> l2]

----------------------------------------------------------------------------
(* InteractiveNavigateEnv.get_reward *)

\* Faulty variant: the new normalized potential is not stored
ShapingUpdate_NotStored(c, stg, ph, ip, npot) ==
    LET new == QDiv(Q(GetPotential(c, stg, ph)), ip)
    IN  [shaping |-> QMul(QSub(npot, new), Q(PotentialRewardWeight)),
         normalized |-> npot]

\* lines 708-713: the ordinary shaping branch
ShapingUpdate(c, stg, ph, ip, npot) ==
    LET new == QDiv(Q(GetPotential(c, stg, ph)), ip)
    IN  [shaping |-> QMul(QSub(npot, new), Q(PotentialRewardWeight)),
         normalized |-> new]

\* Faulty variant: the baseline is measured with the potential of the stage just left
MilestoneUpdate_OldStage(c, stg, ph) ==
    [initial |-> Q(GetPotential(c, stg - 1, ph)), normalized |-> One,
     milestone |-> QHalf(SuccessReward)]

\* lines 703-707: the stage changed: re-baseline and award the milestone
MilestoneUpdate(c, stg, ph) ==
    [initial |-> Q(GetPotential(c, stg, ph)), normalized |-> One,
     milestone |-> QHalf(SuccessReward)]

\* lines 369-370: the agent's links in contact, none excluded
NavigateCollisionLinkIds(cl) == {e.linkA : e \in cl}

\* Faulty variant: contacts with the door handle are counted as well
InteractiveCollisionLinkIds_NoWhitelist(cl) == {e.linkA : e \in cl}

\* lines 724-725: contacts with the door handle are left out
InteractiveCollisionLinkIds(cl) ==
    {e.linkA : e \in {x \in cl : ~(x.bodyB = "door" /\ x.linkB = DoorHandleLink)}}

\* collision_reward * self.collision_reward_weight, lines 370-371 and 726-727
CollisionTerm(c, ids) ==
    QMul(IF ids \cap CollisionLinks # {} THEN One ELSE Zero, c.collision_reward_weight)

\* Variant in which a step that reached the goal is spared the penalty
DeathPenalty_UnlessSuccess(c, ph) ==
    IF FlippedOver(ph) /\ ~GoalReachedReward(c, ph) THEN Q(-SuccessReward)
    ELSE Zero

\* lines 735-736: `if self.robots[0].get_position()[2] > 0.1: reward -=
\* self.success_reward`, after and apart from the goal test
DeathPenalty(c, ph) == IF FlippedOver(ph) THEN Q(-SuccessReward) ELSE Zero

\* The weights electricity_reward_weight and stall_torque_reward_weight are
\* 0.0 (lines 71-72), so the clipped energy and stall terms contribute 0
\* whatever the joint state.
InteractiveGetReward(c, stg, prev, ph, ip, npot, cl) ==
    LET changed == stg # prev
        ms  == MilestoneUpdate(c, stg, ph)
        sh  == ShapingUpdate(c, stg, ph, ip, npot)
        t   == [slack     |-> Zero,
                milestone |-> IF changed THEN ms.milestone ELSE Zero,
                shaping   |-> IF changed THEN Zero ELSE sh.shaping,
                energy    |-> Zero,
                stall     |-> Zero,
                collision |-> CollisionTerm(c, InteractiveCollisionLinkIds(cl)),
                success   |-> IF GoalReachedReward(c, ph) THEN Q(SuccessReward) ELSE Zero,
                failure   |-> DeathPenalty(c, ph)]
    IN  IF ~changed /\ ip = Unset
        THEN [raised |-> TRUE, terms |-> NoTerms,
              initial |-> ip, normalized |-> npot]     \* AttributeError, line 709
        ELSE [raised |-> FALSE, terms |-> t,
              initial |-> IF changed THEN ms.initial ELSE ip,
              normalized |-> IF changed THEN ms.normalized ELSE sh.normalized]

\* NavigateEnv.get_reward (base and random variants): slack -0.01, shaping,
\* zero energy / stall / collision terms, success bonus, no death penalty
NavigateGetReward(c, stg, ph, ip, npot, cl) ==
    LET sh  == ShapingUpdate(c, stg, ph, ip, npot)
        t   == [slack     |-> SlackReward,
                milestone |-> Zero,
                shaping   |-> sh.shaping,
                energy    |-> Zero,
                stall     |-> Zero,
                collision |-> CollisionTerm(c, NavigateCollisionLinkIds(cl)),
                success   |-> IF GoalReachedReward(c, ph) THEN Q(SuccessReward) ELSE Zero,
                failure   |-> Zero]
    IN  IF ip = Unset
        THEN [raised |-> TRUE, terms |-> NoTerms,
              initial |-> ip, normalized |-> npot]     \* AttributeError, line 355
        ELSE [raised |-> FALSE, terms |-> t,
              initial |-> ip, normalized |-> sh.normalized]

GetReward(c, stg, prev, ph, ip, npot, cl) ==
    IF c.variant = "interactive"
    THEN InteractiveGetReward(c, stg, prev, ph, ip, npot, cl)
    ELSE NavigateGetReward(c, stg, ph, ip, npot, cl)

----------------------------------------------------------------------------
(* NavigateEnv.get_termination *)

\* Faulty variant: the episode length is reported on every step
GetTermination_AlwaysLength(c, cs, ph) ==
    LET n == cs + 1
        cause == IF GoalReachedTermination(c, ph) THEN "success"
                 ELSE IF FlippedOver(ph) THEN "death"
                 ELSE IF n >= c.max_step THEN "timeout"
                 ELSE "none"
        done == cause # "none"
    IN  [current_step |-> n, done |-> done, cause |-> cause,
         info |-> IF done
                  THEN [success |-> Some(cause = "success"),
                        episode_length |-> Some(n), last_observation |-> None]
                  ELSE [EmptyInfo EXCEPT !.episode_length = Some(n)]]

\* Faulty variant: the timeout comes one step late
GetTermination_LateTimeout(c, cs, ph) ==
    LET n == cs + 1
        cause == IF GoalReachedTermination(c, ph) THEN "success"
                 ELSE IF FlippedOver(ph) THEN "death"
                 ELSE IF n > c.max_step THEN "timeout"
                 ELSE "none"
        done == cause # "none"
    IN  [current_step |-> n, done |-> done, cause |-> cause,
         info |-> IF done
                  THEN [success |-> Some(cause = "success"),
                        episode_length |-> Some(n), last_observation |-> None]
                  ELSE EmptyInfo]

\* Faulty variant: the step counter is incremented after the conditions
\* were evaluated, so the reported length lags by one
GetTermination_CountsLate(c, cs, ph) ==
    LET n == cs + 1
        cause == IF GoalReachedTermination(c, ph) THEN "success"
                 ELSE IF FlippedOver(ph) THEN "death"
                 ELSE IF cs >= c.max_step THEN "timeout"
                 ELSE "none"
        done == cause # "none"
    IN  [current_step |-> n, done |-> done, cause |-> cause,
         info |-> IF done
                  THEN [success |-> Some(cause = "success"),
                        episode_length |-> Some(cs), last_observation |-> None]
                  ELSE EmptyInfo]

\* Faulty variant: the counter stops once it has reached max_step
GetTermination_Capped(c, cs, ph) ==
    LET n == IF cs >= c.max_step THEN cs ELSE cs + 1
        cause == IF GoalReachedTermination(c, ph) THEN "success"
                 ELSE IF FlippedOver(ph) THEN "death"
                 ELSE IF n >= c.max_step THEN "timeout"
                 ELSE "none"
        done == cause # "none"
    IN  [current_step |-> n, done |-> done, cause |-> cause,
         info |-> IF done
                  THEN [success |-> Some(cause = "success"),
                        episode_length |-> Some(n), last_observation |-> None]
                  ELSE EmptyInfo]

\* Faulty variant: the flip-over test comes before the goal test
GetTermination_DeathFirst(c, cs, ph) ==
    LET n == cs + 1
        cause == IF FlippedOver(ph) THEN "death"
                 ELSE IF GoalReachedTermination(c, ph) THEN "success"
                 ELSE IF n >= c.max_step THEN "timeout"
                 ELSE "none"
        done == cause # "none"
    IN  [current_step |-> n, done |-> done, cause |-> cause,
         info |-> IF done
                  THEN [success |-> Some(cause = "success"),
                        episode_length |-> Some(n), last_observation |-> None]
                  ELSE EmptyInfo]

GetTermination(c, cs, ph) ==
    LET n == cs + 1
        cause == IF GoalReachedTermination(c, ph) THEN "success"
                 ELSE IF FlippedOver(ph) THEN "death"
                 ELSE IF n >= c.max_step THEN "timeout"
                 ELSE "none"
        done == cause # "none"
    IN  [current_step |-> n, done |-> done, cause |-> cause,
         info |-> IF done
                  THEN [success |-> Some(cause = "success"),
                        episode_length |-> Some(n), last_observation |-> None]
                  ELSE EmptyInfo]

----------------------------------------------------------------------------
(* reset() *)

\* reset_initial_and_target_pos(): the reading once the agent is placed.
\* Random and multi-stage variants: the agent is dropped from 0.1 above the
\* chosen point and "falls down to the ground" (line 589), so its height
\* reads at most the tip-over bound; the base variant puts it at the
\* configured initial_pos, whatever its height.  Multi-stage variant:
\* reset_interactive_objects() zeroed the door joint before, and the settle
\* bursts apply no action to the resting, unattached door; the agent stands
\* at [0, 0], the door at [100, 100] (line 494), so the handle is out of the
\* end effector's reach, and so is the target.  How far the agent's base is
\* from the target is left open in every variant.
Placements(c) ==
    {r \in Readings(c) :
        /\ r.door_angle = 0
        /\ (c.variant # "base" => r.z = TipBound)
        /\ (c.variant = "interactive" => r.handle_dist = FarHandleDist(c))
        /\ (c.variant = "interactive" /\ c.task = "reaching" => r.ee_dist = DistTol)}

\* Faulty variant: the constraint is left in place
ResetInteractiveObjects_Leak(c, lv) == [cid |-> c, live |-> lv]

\* InteractiveNavigateEnv.reset_interactive_objects, lines 568-570
ResetInteractiveObjects(c, lv) ==
    IF c # NoCid THEN [cid |-> NoCid, live |-> lv - 1]
    ELSE [cid |-> c, live |-> lv]

\* Faulty variant: NavigateEnv.reset runs before self.stage is zeroed
ResetPotentialStage_Stale(stg) == stg

\* the stage get_potential() sees at line 423: InteractiveNavigateEnv.reset
\* assigns self.stage = 0 (line 600) before it calls NavigateEnv.reset
ResetPotentialStage(stg) == 0

\* the whole of reset(): the object's fields afterwards and what it returns
ResetEffect(cf, s, ph) ==
    LET inter == cf.variant = "interactive"
        obj   == IF inter THEN ResetInteractiveObjects(s.cid, s.live)
                 ELSE [cid |-> s.cid, live |-> s.live]
        pstg  == IF inter THEN ResetPotentialStage(s.stage) ELSE s.stage
        nstg  == IF inter THEN 0 ELSE s.stage
    IN  [state |->
            [phys |-> ph, live |-> obj.live, stage |-> nstg,
             prev_stage |-> IF inter THEN nstg ELSE s.prev_stage,
             cid |-> obj.cid,
             initial_potential |-> Q(GetPotential(cf, pstg, ph)),
             normalized_potential |-> One,
             current_step |-> 0],
         raised |-> GetStateRaises(cf),                 \* get_state(), line 432
         obs |-> GetState(cf, nstg, ph, {})]

\* l2_distance of two points of the scene: the points the model samples lie
\* on the x axis, one metre apart
L2(a, b) == Abs(a[1] - b[1])

\* config.get('initial_pos', [0, 0, 0]) and config.get('target_pos',
\* [5, 5, 0]), lines 48 and 51, in metres
ConfigInitialPos == <<0, 0, 0>>

ConfigTargetPos == <<5, 5, 0>>

\* pos and self.target_pos of the multi-stage placement, lines 576 and 595
Origin == <<0, 0, 0>>

FarTarget == <<-100, -100, 0>>

\* self.scene.get_random_point(): the points of the scene
ScenePoints == {<<x, 0, 0>> : x \in 0..MaxDist}

\* reset_initial_and_target_pos(): self.initial_pos and self.target_pos once
\* it returns.  The base class assigns neither (lines 416-418); the random
\* variant leaves its loops with a sampled pair at least 1.0 apart (lines
\* 469-473); the multi-stage variant assigns the two constants.
PlacedPoses(c, ip, tp) ==
    IF c.variant = "interactive" THEN {<<Origin, FarTarget>>}
    ELSE IF c.variant = "random"
    THEN {pr \in ScenePoints \X ScenePoints : L2(pr[1], pr[2]) >= 1}
    ELSE {<<ip, tp>>}

----------------------------------------------------------------------------
(* step() *)

\* Faulty variant: every terminal step resets
AutoResetFires_Always(cf, done) == done

\* line 411: `if done and self.automatic_reset`
AutoResetFires(cf, done) == done /\ cf.automatic_reset

\* Faulty variant: the terminal observation is returned, the fresh one stashed
StashAndReplace_Swapped(info, stateObs, resetObs) ==
    [obs |-> stateObs, info |-> [info EXCEPT !.last_observation = Some(resetObs)]]

\* lines 412-413: what step() returns as observation and stashes in info
StashAndReplace(info, stateObs, resetObs) ==
    [obs |-> resetObs, info |-> [info EXCEPT !.last_observation = Some(stateObs)]]

\* InteractiveNavigateEnv.step, lines 663-687, before the call of
\* NavigateEnv.step; the base and random variants do not override step()
Transitions(cf, s) ==
    IF cf.variant = "interactive"
    THEN StageTransition(s.stage, s.cid, s.live, s.phys)
    ELSE [raised |-> FALSE, stage |-> s.stage, cid |-> s.cid, live |-> s.live]

\* Variant in which step() leaves self.prev_stage as it was
PrevStage_Stale(cf, s) == s.prev_stage

\* the value of self.prev_stage once line 668 has run
PrevStage(cf, s) == IF cf.variant = "interactive" THEN s.stage ELSE s.prev_stage

\* step() up to and including get_termination(): tr is what the transition
\* check left, ph the reading the sub-ticks of this step end in, rw and tm
\* what get_reward() and get_termination() computed.  Gives the object's
\* fields, the outcome and whether reset() is to be called.
StepBody(cf, s, ph, cl, tr, rw, tm) ==
    IF tr.raised
    THEN [state |-> [s EXCEPT !.prev_stage = PrevStage(cf, s), !.stage = tr.stage,
                              !.cid = tr.cid, !.live = tr.live],
          ret |-> Raised("step", "AssertionError"), reset |-> FALSE]
    ELSE IF GetStateRaises(cf) # "" \/ rw.raised             \* lines 407, 408
    THEN [state |-> [s EXCEPT !.prev_stage = PrevStage(cf, s), !.stage = tr.stage,
                              !.cid = tr.cid, !.live = tr.live, !.phys = ph],
          ret |-> Raised("step", IF GetStateRaises(cf) # "" THEN GetStateRaises(cf)
                                 ELSE "AttributeError"),
          reset |-> FALSE]
    ELSE IF s.current_step = NoStep                           \* line 380
    THEN [state |-> [s EXCEPT !.prev_stage = PrevStage(cf, s), !.stage = tr.stage,
                              !.cid = tr.cid, !.live = tr.live, !.phys = ph,
                              !.initial_potential = rw.initial,
                              !.normalized_potential = rw.normalized],
          ret |-> Raised("step", "AttributeError"), reset |-> FALSE]
    ELSE [state |-> [s EXCEPT !.prev_stage = PrevStage(cf, s), !.stage = tr.stage,
                              !.cid = tr.cid, !.live = tr.live, !.phys = ph,
                              !.initial_potential = rw.initial,
                              !.normalized_potential = rw.normalized,
                              !.current_step = tm.current_step],
          ret |-> [RetNone EXCEPT
                     !.call = "step",
                     !.obs = Some(GetState(cf, tr.stage, ph, cl)),
                     !.reward = Some(SumTerms(rw.terms)),
                     !.terms = rw.terms,
                     !.done = tm.done,
                     !.info = tm.info,
                     !.at = Some(ph),
                     !.stage_at = Some(tr.stage),
                     !.prev_at = Some(PrevStage(cf, s)),
                     !.pot_at = Some(<<rw.initial, rw.normalized>>),
                     !.step_at = Some(tm.current_step),
                     !.contacts = cl],
          reset |-> AutoResetFires(cf, tm.done)]

\* lines 411-414: the end of step(), given what StepBody produced; ph2 is
\* the reading reset() ends in when it is called
StepFinish(cf, b, ph2) ==
    LET r  == ResetEffect(cf, b.state, ph2)
        sr == StashAndReplace(b.ret.info, b.ret.obs[1], r.obs)
    IN  IF ~b.reset THEN [state |-> b.state, ret |-> b.ret]
        ELSE IF r.raised # "" THEN [state |-> r.state, ret |-> Raised("step", r.raised)]
        ELSE [state |-> r.state,
              ret |-> [b.ret EXCEPT !.obs = Some(sr.obs), !.info = sr.info,
                                    !.reset_called = TRUE]]

----------------------------------------------------------------------------
(* The state machine *)

Self ==
    [phys |-> phys, live |-> live, stage |-> stage, prev_stage |-> prev_stage,
     cid |-> cid, initial_potential |-> initial_potential,
     normalized_potential |-> normalized_potential, current_step |-> current_step]

Becomes(s) ==
    /\ phys' = s.phys
    /\ live' = s.live
    /\ stage' = s.stage
    /\ prev_stage' = s.prev_stage
    /\ cid' = s.cid
    /\ initial_potential' = s.initial_potential
    /\ normalized_potential' = s.normalized_potential
    /\ current_step' = s.current_step

\* load() assigns the configured poses
LoadedPoses ==
    /\ initial_pos = ConfigInitialPos
    /\ target_pos = ConfigTargetPos

NoConfig == <<>>
NoLoaded == <<>>
NoPlace == <<>>
NoPeer == <<>>
NoSim == <<>>
NoRun == <<>>

\* nothing was loaded apart from cfg, no placement is under way, there is
\* one object
Idle ==
    /\ config = NoConfig
    /\ loaded = NoLoaded
    /\ place = NoPlace
    /\ peer = NoPeer
    /\ sim = NoSim
    /\ run = NoRun

\* After construction: the constructors set stage, prev_stage and cid; the
\* potentials and the step counter do not exist before the first reset().
Init ==
    /\ cfg \in Configs
    /\ phys \in Placements(cfg)
    /\ live = 0
    /\ stage = 0
    /\ prev_stage = 0
    /\ cid = NoCid
    /\ initial_potential = Unset
    /\ normalized_potential = Unset
    /\ current_step = NoStep
    /\ ret = RetNone
    /\ LoadedPoses
    /\ Idle

\* reset() with the poses reset_initial_and_target_pos() leaves drawn from
\* pss
ResetCall(pss) ==
    \E ph \in Placements(cfg) :
    \E ps \in pss :
        \E r \in {ResetEffect(cfg, Self, ph)} :
            /\ Becomes(r.state)
            /\ initial_pos' = ps[1]
            /\ target_pos' = ps[2]
            /\ ret' = IF r.raised # "" THEN Raised("reset", r.raised)
                      ELSE [RetNone EXCEPT !.call = "reset", !.obs = Some(r.obs)]
            /\ UNCHANGED cfg

Reset ==
    /\ ResetCall(PlacedPoses(cfg, initial_pos, target_pos))
    /\ UNCHANGED others

\* step() with the contact points run_simulation() hands it drawn from cls.
\* Each part of the call is evaluated once and handed on as a value.
StepCall(cls) ==
    /\ current_step < MaxSteps
    /\ \E tr \in {Transitions(cfg, Self)} :
       \E ph \in Readings(cfg) :
       \E cl \in cls :
       \E rw \in {GetReward(cfg, tr.stage, PrevStage(cfg, Self), ph,
                            initial_potential, normalized_potential, cl)} :
       \E tm \in {GetTermination(cfg, current_step, ph)} :
       \E b \in {StepBody(cfg, Self, ph, cl, tr, rw, tm)} :
       \E ph2 \in (IF b.reset THEN Placements(cfg) ELSE {ph}) :
       \E ps \in (IF b.reset THEN PlacedPoses(cfg, initial_pos, target_pos)
                 ELSE {<<initial_pos, target_pos>>}) :
       \E e \in {StepFinish(cfg, b, ph2)} :
            /\ Becomes(e.state)
            /\ ret' = e.ret
            /\ initial_pos' = ps[1]
            /\ target_pos' = ps[2]
            /\ UNCHANGED cfg

Step ==
    /\ StepCall(ContactReadings(cfg))
    /\ UNCHANGED others

Next == Reset \/ Step

Spec == Init /\ [][Next]_vars

\* The same object under a configuration with a collision penalty, with
\* get_reward() also called directly: on the physics state as it is, with
\* the contact points the caller collected.
InitPenalty ==
    /\ cfg \in PenaltyConfigs
    /\ phys \in Placements(cfg)
    /\ live = 0
    /\ stage = 0
    /\ prev_stage = 0
    /\ cid = NoCid
    /\ initial_potential = Unset
    /\ normalized_potential = Unset
    /\ current_step = NoStep
    /\ ret = RetNone
    /\ LoadedPoses
    /\ Idle

GetRewardCall ==
    \E cl \in ContactReadings(cfg) :
    \E rw \in {GetReward(cfg, stage, prev_stage, phys,
                         initial_potential, normalized_potential, cl)} :
        /\ initial_potential' = rw.initial
        /\ normalized_potential' = rw.normalized
        /\ ret' = IF rw.raised THEN Raised("get_reward", "AttributeError")
                  ELSE [RetNone EXCEPT
                          !.call = "get_reward",
                          !.reward = Some(SumTerms(rw.terms)),
                          !.terms = rw.terms,
                          !.at = Some(phys),
                          !.stage_at = Some(stage),
                          !.prev_at = Some(prev_stage),
                          !.pot_at = Some(<<rw.initial, rw.normalized>>),
                          !.contacts = cl]
        /\ UNCHANGED <<cfg, phys, live, stage, prev_stage, cid, current_step,
                       initial_pos, target_pos, others>>

NextPenalty == Reset \/ Step \/ GetRewardCall

SpecPenalty == InitPenalty /\ [][NextPenalty]_vars

\* The same object constructed from a configuration with any
\* additional_states_dim: load() accepts every value (lines 54 and 80).
InitDims ==
    /\ cfg \in DimConfigs
    /\ phys \in Placements(cfg)
    /\ live = 0
    /\ stage = 0
    /\ prev_stage = 0
    /\ cid = NoCid
    /\ initial_potential = Unset
    /\ normalized_potential = Unset
    /\ current_step = NoStep
    /\ ret = RetNone
    /\ LoadedPoses
    /\ Idle

SpecDims == InitDims /\ [][Next]_vars

\* The same object constructed with normalize_observation set
InitNorm ==
    /\ cfg \in NormConfigs
    /\ phys \in Placements(cfg)
    /\ live = 0
    /\ stage = 0
    /\ prev_stage = 0
    /\ cid = NoCid
    /\ initial_potential = Unset
    /\ normalized_potential = Unset
    /\ current_step = NoStep
    /\ ret = RetNone
    /\ LoadedPoses
    /\ Idle

SpecNorm == InitNorm /\ [][Next]_vars

\* The configurations reload() is applied to: automatic reset, and a
\* configuration file that states what the model holds fixed (dist_tol 0.2,
\* the reward magnitudes), so that reload() of the same file leaves cfg as
\* it is.
ReloadConfigs ==
    {c \in AllConfigs(Variants, {TRUE}, {"pointgoal"}, {DefaultCollisionWeight},
                      StateDims, {FALSE}, {NoNormalizer}) : DimsMatch(c)}

InitReload ==
    /\ cfg \in ReloadConfigs
    /\ phys \in Placements(cfg)
    /\ live = 0
    /\ stage = 0
    /\ prev_stage = 0
    /\ cid = NoCid
    /\ initial_potential = Unset
    /\ normalized_potential = Unset
    /\ current_step = NoStep
    /\ ret = RetNone
    /\ LoadedPoses
    /\ Idle

\* BaseEnv.reload(): the simulator is loaded again; the agent stands where
\* it stood or where the scene puts it
BaseReload(c, ph) == {ph} \cup Placements(c)

\* NavigateEnv.reload(config_file) with the file the object was built from:
\* lines 144-147 assign the configured poses again; the episode state
\* (stage, potentials, step counter) is not touched
Reload ==
    /\ phys' \in BaseReload(cfg, phys)
    /\ initial_pos' = ConfigInitialPos
    /\ target_pos' = ConfigTargetPos
    /\ ret' = [RetNone EXCEPT !.call = "reload"]
    /\ UNCHANGED <<cfg, live, stage, prev_stage, cid, initial_potential,
                   normalized_potential, current_step, others>>

NextReload == Reset \/ Step \/ Reload

SpecReload == InitReload /\ [][NextReload]_vars

----------------------------------------------------------------------------
(* load() and reload() *)

\* self.dist_tol when the key is missing: 0.2 after load() (DistTol, line
\* 62), 0.5 after reload() (line 158)
ReloadDistTol == 5

\* float('inf'), the max_step of a configuration without the key
PosInf == <<1, 0>>

\* the keys a configuration file may leave out, and the value a file that
\* has the key gives it
OptionalKeys ==
    {"dist_tol", "max_step", "success_reward", "collision_reward_weight",
     "collision_links"}

Configured(k) ==
    CASE k = "dist_tol" -> 3
      [] k = "max_step" -> Q(MaxStepCfg)
      [] k = "success_reward" -> 20
      [] k = "collision_reward_weight" -> PenaltyWeight
      [] k = "collision_links" -> {BaseLink, EndEffectorLink}

\* config['output'], a key every file has
Outputs == {{"sensor"}, {"sensor", "auxiliary_sensor"}}

\* the dictionaries parse_config() returns
ConfigFiles ==
    UNION {{[k \in K \cup {"output"} |->
                IF k = "output" THEN o ELSE Configured(k)] : o \in Outputs}
           : K \in SUBSET OptionalKeys}

\* self.config.get(k, d)
Get(c, k, d) == IF k \in DOMAIN c THEN c[k] ELSE d

\* the attributes load() assigns, lines 62-78
LoadAttrs(c) ==
    [dist_tol |-> Get(c, "dist_tol", DistTol),
     max_step |-> Get(c, "max_step", PosInf),
     success_reward |-> Get(c, "success_reward", SuccessReward),
     slack_reward |-> Get(c, "slack_reward", SlackReward),
     potential_reward_weight |->
         Get(c, "potential_reward_weight", PotentialRewardWeight),
     electricity_reward_weight |-> Get(c, "electricity_reward_weight", Zero),
     stall_torque_reward_weight |-> Get(c, "stall_torque_reward_weight", Zero),
     collision_reward_weight |->
         Get(c, "collision_reward_weight", DefaultCollisionWeight),
     collision_links |-> Get(c, "collision_links", CollisionLinks),
     output |-> c["output"]]

\* BaseEnv.reload(config_file), called at line 143: self.config becomes the
\* parsed file; the attributes are left as they were or assigned by load()
BaseReloadAttrs(c, at) == {at, LoadAttrs(c)}

\* the attributes after lines 144-167 of reload(): dist_tol, max_step and
\* output are assigned; terminal_reward, electricity_cost,
\* stall_torque_cost and collision_cost (lines 162-165) are attributes no
\* other method reads; success_reward, slack_reward, the four weights and
\* collision_links are not assigned
ReloadAttrs(c, at) ==
    [at EXCEPT !.dist_tol = Get(c, "dist_tol", ReloadDistTol),
               !.max_step = Get(c, "max_step", PosInf),
               !.output = c["output"]]

LoadConfigs ==
    {c \in Configs : c.variant = "base" /\ ~c.automatic_reset
                                        /\ c.task = "pointgoal"}

\* After construction from a file: load() has run on self.config
InitLoad ==
    /\ cfg \in LoadConfigs
    /\ phys \in Placements(cfg)
    /\ live = 0
    /\ stage = 0
    /\ prev_stage = 0
    /\ cid = NoCid
    /\ initial_potential = Unset
    /\ normalized_potential = Unset
    /\ current_step = NoStep
    /\ ret = RetNone
    /\ LoadedPoses
    /\ config \in ConfigFiles
    /\ loaded = LoadAttrs(config)
    /\ place = NoPlace
    /\ peer = NoPeer
    /\ sim = NoSim
    /\ run = NoRun

\* reload(config_file)
ReloadFile ==
    \E c \in ConfigFiles :
    \E at \in BaseReloadAttrs(c, loaded) :
        /\ config' = c
        /\ loaded' = ReloadAttrs(c, at)
        /\ initial_pos' = ConfigInitialPos
        /\ target_pos' = ConfigTargetPos
        /\ ret' = [RetNone EXCEPT !.call = "reload"]
        /\ UNCHANGED <<cfg, phys, live, stage, prev_stage, cid,
                       initial_potential, normalized_potential, current_step,
                       place, peer, sim, run>>

NextLoad == ReloadFile

SpecLoad == InitLoad /\ [][NextLoad]_vars

----------------------------------------------------------------------------
(* The placement loops of reset() *)

\* yaw drawn by np.random.uniform(0, np.pi * 2), lines 460 and 578: two
\* orientations stand for the range
Orientations == {0, 1}

\* the poses a placement loop can try: any point of the scene (line 458),
\* or the fixed position under any yaw (lines 576-578)
StartPoses(c) ==
    IF c.variant = "interactive" THEN {<<Origin, o>> : o \in Orientations}
    ELSE {<<pt, 0>> : pt \in ScenePoints}

\* np.unique(collision_links) after a burst (lines 462-468, 580-586): the
\* agent's links that touched something
BurstOutcomes == {{}, {BaseLink}, {EndEffectorLink}}

\* a scene: what the burst reports at each pose
Scenes(c) == [StartPoses(c) -> BurstOutcomes]

\* floor of get_random_point(): the last point of the scene lies alone on
\* the upper floor
FloorOf(pt) == IF pt[1] = MaxDist THEN 1 ELSE 0

\* get_random_point_floor(floor, ...), line 472
FloorPoints(f) == {pt \in ScenePoints : FloorOf(pt) = f}

\* `while -1 in collision_links`, lines 457 and 574
Rejected(links) == BaseLink \in links

\* `while dist < 1.0`, line 471
TooClose(ip, tp) == L2(ip, tp) < 1

PlacementConfigs ==
    {c \in Configs : c.variant # "base" /\ ~c.automatic_reset
                                        /\ c.task = "pointgoal"}

InitPlacement ==
    /\ cfg \in PlacementConfigs
    /\ phys \in Placements(cfg)
    /\ live = 0
    /\ stage = 0
    /\ prev_stage = 0
    /\ cid = NoCid
    /\ initial_potential = Unset
    /\ normalized_potential = Unset
    /\ current_step = NoStep
    /\ ret = RetNone
    /\ LoadedPoses
    /\ config = NoConfig
    /\ loaded = NoLoaded
    /\ place \in [scene : Scenes(cfg), phase : {"idle"}, floor : {0},
                   burst : {{}}]
    /\ peer = NoPeer
    /\ sim = NoSim
    /\ run = NoRun

\* reset() up to the first loop of reset_initial_and_target_pos()
ResetBegin ==
    /\ place.phase = "idle"
    /\ place' = [place EXCEPT !.phase = "start", !.burst = {}]
    /\ UNCHANGED <<cfg, phys, live, stage, prev_stage, cid, initial_potential,
                   normalized_potential, current_step, ret, initial_pos,
                   target_pos, config, loaded, peer, sim, run>>

\* One iteration of the first loop at pose ps: the agent is put there, the
\* burst runs, self.initial_pos is assigned (lines 458-469, 576-587).  The
\* multi-stage variant leaves the loop for the settling ticks and the
\* constant target (lines 590-595).
SampleStart(ps) ==
    /\ place.phase = "start"
    /\ \E links \in {place.scene[ps]} :
          /\ initial_pos' = ps[1]
          /\ place' = [place EXCEPT
                          !.burst = links,
                          !.floor = FloorOf(ps[1]),
                          !.phase = IF Rejected(links) THEN "start"
                                    ELSE IF cfg.variant = "interactive"
                                    THEN "placed" ELSE "target"]
          /\ target_pos' = IF ~Rejected(links) /\ cfg.variant = "interactive"
                           THEN FarTarget ELSE target_pos
    /\ UNCHANGED <<cfg, phys, live, stage, prev_stage, cid, initial_potential,
                   normalized_potential, current_step, ret, config, loaded,
                   peer, sim, run>>

\* One iteration of the second loop of the random variant, lines 471-473
SampleTarget(tp) ==
    /\ place.phase = "target"
    /\ tp \in FloorPoints(place.floor)
    /\ target_pos' = tp
    /\ place' = [place EXCEPT
                    !.phase = IF TooClose(initial_pos, tp) THEN "target"
                              ELSE "placed"]
    /\ UNCHANGED <<cfg, phys, live, stage, prev_stage, cid, initial_potential,
                   normalized_potential, current_step, ret, initial_pos,
                   config, loaded, peer, sim, run>>

\* reset_initial_and_target_pos() has returned: the rest of reset()
ResetEnd ==
    /\ place.phase = "placed"
    /\ ResetCall({<<initial_pos, target_pos>>})
    /\ place' = [place EXCEPT !.phase = "idle"]
    /\ UNCHANGED <<config, loaded, peer, sim, run>>

SampleAnyStart == \E ps \in StartPoses(cfg) : SampleStart(ps)

SampleAnyTarget == \E tp \in ScenePoints : SampleTarget(tp)

NextPlacement == ResetBegin \/ SampleAnyStart \/ SampleAnyTarget \/ ResetEnd

SpecPlacement == InitPlacement /\ [][NextPlacement]_vars

\* get_random_point() and np.random.uniform are fair: a pose that stays
\* possible is drawn sooner or later, and reset() runs on
AllPoses == {<<pt, o>> : pt \in ScenePoints, o \in Orientations}

FairSampling ==
    /\ \A ps \in AllPoses : WF_vars(ps \in StartPoses(cfg) /\ SampleStart(ps))
    /\ \A tp \in ScenePoints : WF_vars(SampleTarget(tp))
    /\ WF_vars(ResetEnd)

FairPlacement == SpecPlacement /\ FairSampling

----------------------------------------------------------------------------
(* Two environment objects under one orchestrator *)

\* The objects the orchestrator drives: train_eval builds each from its own
\* call of env_load_fn (lines 167-171).  Object 1 is held in the variables
\* of the module, object 2 in peer.env.
Instances == {1, 2}
Calls == {"reset", "step"}

\* step() applied to an object whose fields are s: every outcome, as the
\* fields afterwards and what the call gives back
StepOutcomes(cf, s, phs, cls) ==
    UNION {UNION {
        LET tr == Transitions(cf, s)
            rw == GetReward(cf, tr.stage, PrevStage(cf, s), ph,
                            s.initial_potential, s.normalized_potential, cl)
            tm == GetTermination(cf, s.current_step, ph)
            b  == StepBody(cf, s, ph, cl, tr, rw, tm)
        IN  {StepFinish(cf, b, ph2) :
                ph2 \in (IF b.reset THEN Placements(cf) ELSE {ph})}
        : cl \in cls} : ph \in phs}

\* reset() applied to an object whose fields are s
ResetOutcomes(cf, s) ==
    {LET r == ResetEffect(cf, s, ph)
     IN  [state |-> r.state,
          ret |-> IF r.raised # "" THEN Raised("reset", r.raised)
                  ELSE [RetNone EXCEPT !.call = "reset", !.obs = Some(r.obs)]]
     : ph \in Placements(cf)}

\* With two objects the agents stay upright and away from the goal and
\* touch nothing: the readings left are those the stage transitions test
TwoReadings(c) ==
    {r \in Readings(c) : r.z = TipBound /\ r.robot_dist = DistTol}

CallOutcomes(cf, s, op) ==
    IF op = "reset" THEN ResetOutcomes(cf, s)
    ELSE StepOutcomes(cf, s, TwoReadings(cf), {{}})

\* what the orchestrator keeps of an outcome
Outcome(r) ==
    [RetNone EXCEPT !.call = r.call, !.raised = r.raised, !.done = r.done,
                    !.reset_called = r.reset_called]

\* Variant in which the fields are attributes of the class, shared by all
\* its objects
Store_OnClass(envs, i, s) == [j \in DOMAIN envs |-> s]

\* `self.<field> = ...` (lines 423-425, 533-535, 568-570, 600-601, 668-683):
\* every field is an attribute of the object the method was called on
Store(envs, i, s) == [envs EXCEPT ![i] = s]

\* Variant in which a worker starts a request while another one runs
CanStart_Threaded(n) == TRUE

\* step() and reset() are plain method calls (lines 404, 420, 598, 662):
\* the process that owns an object takes its next request when the method
\* has returned
CanStart(n) == n = 0

TwoConfigs == {c \in PenaltyConfigs : c.variant = "interactive"}

Constructed2(c, ph) ==
    [phys |-> ph, live |-> 0, stage |-> 0, prev_stage |-> 0, cid |-> NoCid,
     initial_potential |-> Unset, normalized_potential |-> Unset,
     current_step |-> NoStep]

InitTwo ==
    /\ cfg \in TwoConfigs
    /\ phys \in Placements(cfg) \cap TwoReadings(cfg)
    /\ live = 0
    /\ stage = 0
    /\ prev_stage = 0
    /\ cid = NoCid
    /\ initial_potential = Unset
    /\ normalized_potential = Unset
    /\ current_step = NoStep
    /\ ret = RetNone
    /\ LoadedPoses
    /\ config = NoConfig
    /\ loaded = NoLoaded
    /\ place = NoPlace
    /\ \E ph \in Placements(cfg) \cap TwoReadings(cfg) :
          peer = [env |-> Constructed2(cfg, ph),
                  active |-> [i \in Instances |-> <<>>]]
    /\ sim = NoSim
    /\ run = NoRun

Envs == [i \in Instances |-> IF i = 1 THEN Self ELSE peer.env]

\* the orchestrator calls step() or reset() on object i, whose process
\* takes the request
Begin(i, op) ==
    /\ Len(peer.active[i]) < MaxPending
    /\ CanStart(Len(peer.active[i]))
    /\ peer' = [peer EXCEPT !.active[i] = Append(@, op)]
    /\ UNCHANGED <<cfg, phys, live, stage, prev_stage, cid, initial_potential,
                   normalized_potential, current_step, ret, initial_pos,
                   target_pos, config, loaded, place, sim, run>>

\* the method called on object i runs and returns
End(i) ==
    /\ peer.active[i] # <<>>
    /\ Envs[i].current_step < MaxSteps
    /\ \E out \in CallOutcomes(cfg, Envs[i], Head(peer.active[i])) :
       \E envs \in {Store(Envs, i, out.state)} :
       \E ps \in (IF i = 1 /\ (out.ret.call = "reset" \/ out.ret.reset_called)
                 THEN PlacedPoses(cfg, initial_pos, target_pos)
                 ELSE {<<initial_pos, target_pos>>}) :
          /\ Becomes(envs[1])
          /\ peer' = [peer EXCEPT !.env = envs[2], !.active[i] = Tail(@)]
          /\ ret' = IF i = 1 THEN Outcome(out.ret) ELSE ret
          /\ initial_pos' = ps[1]
          /\ target_pos' = ps[2]
    /\ UNCHANGED <<cfg, config, loaded, place, sim, run>>

BeginAny == \E i \in Instances : \E op \in Calls : Begin(i, op)

EndAny == \E i \in Instances : End(i)

NextTwo == BeginAny \/ EndAny

SpecTwo == InitTwo /\ [][NextTwo]_vars

----------------------------------------------------------------------------
(* The shaping term in float64, summed by the caller over a run of steps *)

\* get_potential(): the distances a reading can give, 0.0 included
PotentialReadings == 0..MaxHandleDist

\* a == b of two floats: nan equals nothing
FEq(a, b) == a # NaN /\ b # NaN /\ a = b

\* lines 355-359 and 709-713 with every operation rounded: the quotient,
\* the difference and the product by potential_reward_weight
ShapingFloat(pot, ip, npot) ==
    LET new == Fl(QDiv(Q(pot), ip))
    IN  [shaping |-> Fl(QMul(Fl(QSub(npot, new)), Q(PotentialRewardWeight))),
         normalized |-> new]

\* lines 423-424: reset() takes the baseline and sets the ratio to 1.0; the
\* run the caller sums over starts here
AfterReset(pot) ==
    [initial_potential |-> Q(pot), normalized_potential |-> One,
     n0 |-> One, sum |-> Zero, steps |-> 0]

ShapingConfigs ==
    {c \in Configs : c.variant = "interactive" /\ ~c.automatic_reset
                                               /\ c.task = "pointgoal"}

InitShaping ==
    /\ cfg \in ShapingConfigs
    /\ phys \in Placements(cfg)
    /\ live = 0
    /\ stage = 0
    /\ prev_stage = 0
    /\ cid = NoCid
    /\ initial_potential = Unset
    /\ normalized_potential = Unset
    /\ current_step = NoStep
    /\ ret = RetNone
    /\ LoadedPoses
    /\ config = NoConfig
    /\ loaded = NoLoaded
    /\ place = NoPlace
    /\ peer = NoPeer
    /\ sim = NoSim
    /\ run = AfterReset(FarHandleDist(cfg))

\* reset()
RunReset ==
    /\ \E pot \in PotentialReadings : run' = AfterReset(pot)
    /\ UNCHANGED <<cfg, phys, live, stage, prev_stage, cid, initial_potential,
                   normalized_potential, current_step, ret, initial_pos,
                   target_pos, config, loaded, place, peer, sim>>

\* a step without stage transition: get_reward() adds the shaping term to
\* the reward, the caller adds it to its sum
RunStep ==
    /\ run.steps < MaxSteps
    /\ \E pot \in PotentialReadings :
       \E sh \in {ShapingFloat(pot, run.initial_potential,
                                run.normalized_potential)} :
          run' = [run EXCEPT !.normalized_potential = sh.normalized,
                             !.sum = Fl(QAdd(@, sh.shaping)),
                             !.steps = @ + 1]
    /\ UNCHANGED <<cfg, phys, live, stage, prev_stage, cid, initial_potential,
                   normalized_potential, current_step, ret, initial_pos,
                   target_pos, config, loaded, place, peer, sim>>

\* the caller starts a new sum between two steps
RunMark ==
    /\ run.steps > 0
    /\ run' = [run EXCEPT !.n0 = run.normalized_potential, !.sum = Zero,
                          !.steps = 0]
    /\ UNCHANGED <<cfg, phys, live, stage, prev_stage, cid, initial_potential,
                   normalized_potential, current_step, ret, initial_pos,
                   target_pos, config, loaded, place, peer, sim>>

NextShaping == RunReset \/ RunStep \/ RunMark

SpecShaping == InitShaping /\ [][NextShaping]_vars

----------------------------------------------------------------------------
(* The sub-ticks of a step *)

\* action_timestep and physics_timestep handed to the constructor, in
\* seconds: the defaults 1/10 and 1/240 (lines 29-30) and pairs whose ratio
\* is 2.7, 0.7, 2.5 and 1
TimestepPairs ==
    {<<QNorm(1, 10), QNorm(1, 240)>>, <<QNorm(27, 100), QNorm(1, 10)>>,
     <<QNorm(7, 100), QNorm(1, 10)>>, <<QNorm(1, 4), QNorm(1, 10)>>,
     <<QNorm(1, 10), QNorm(1, 10)>>}

\* int(x) of a finite float: the fraction is cut off
IntOf(q) == Sign(q[1]) * (Abs(q[1]) \div q[2])

\* round(x) of a finite float: the nearest integer, ties to even
RoundOf(q) == Sign(q[1]) * RoundHalfEven(Abs(q[1]), q[2])

\* self.simulator_loop, line 42
SimulatorLoop(at, pt) == IntOf(QDiv(at, pt))

\* the fields the constructor assigns at lines 39-42, before any step()
Constructed(at, pt) ==
    [action_timestep |-> at, physics_timestep |-> pt,
     simulator_loop |-> SimulatorLoop(at, pt),
     phase |-> "idle", ticks |-> 0, polls |-> 0, collision_links |-> {},
     hits |-> 0, last |-> {}]

\* Variant in which each poll replaces what the earlier ones collected
Collect_LastTick(links, cl) == cl

\* collision_links += list(...), line 340
Collect(links, cl) == links \cup cl

\* Variant in which the list of the step before is carried on
FreshList_Kept(links) == links

\* collision_links = [], line 337
FreshList(links) == {}

\* a poll that reports the base link in contact
Hit(cl) == \E e \in cl : e.linkA \in CollisionLinks

\* the contact points one getContactPoints() call reports: none, or the
\* door leaf against the base
TickContacts ==
    {{}, {[bodyB |-> "door", linkA |-> BaseLink, linkB |-> DoorAxisLink]}}

TickConfigs == PenaltyConfigs

InitTicks ==
    /\ cfg \in TickConfigs
    /\ phys \in Placements(cfg)
    /\ live = 0
    /\ stage = 0
    /\ prev_stage = 0
    /\ cid = NoCid
    /\ initial_potential = Unset
    /\ normalized_potential = Unset
    /\ current_step = NoStep
    /\ ret = RetNone
    /\ LoadedPoses
    /\ config = NoConfig
    /\ loaded = NoLoaded
    /\ place = NoPlace
    /\ peer = NoPeer
    /\ sim \in {Constructed(tp[1], tp[2]) : tp \in TimestepPairs}
    /\ run = NoRun

\* step() up to the loop of run_simulation(): apply_action (line 405) and
\* collision_links = [] (line 337)
StepBegin ==
    /\ sim.phase \in {"idle", "returned"}
    /\ current_step < MaxSteps
    /\ sim' = [sim EXCEPT !.phase = "loop", !.ticks = 0, !.polls = 0,
                          !.collision_links = FreshList(@),
                          !.hits = 0, !.last = {}]
    /\ UNCHANGED <<cfg, phys, live, stage, prev_stage, cid, initial_potential,
                   normalized_potential, current_step, ret, initial_pos,
                   target_pos, config, loaded, place, peer, run>>

\* self.simulator_step(), line 339: one more iteration of
\* range(self.simulator_loop)
SimulatorStep ==
    /\ sim.phase = "loop"
    /\ sim.polls = sim.ticks
    /\ sim.ticks < sim.simulator_loop
    /\ sim' = [sim EXCEPT !.ticks = @ + 1]
    /\ UNCHANGED <<cfg, phys, live, stage, prev_stage, cid, initial_potential,
                   normalized_potential, current_step, ret, initial_pos,
                   target_pos, config, loaded, place, peer, run>>

\* collision_links += list(p.getContactPoints(...)), line 340
\* hits and last keep what the polls of this step reported: how many of
\* them (counted up to two) had the base link in contact, and the last one
GetContactPoints ==
    /\ sim.phase = "loop"
    /\ sim.polls < sim.ticks
    /\ \E cl \in TickContacts :
          sim' = [sim EXCEPT !.polls = @ + 1,
                             !.collision_links = Collect(@, cl),
                             !.hits = IF Hit(cl) /\ @ < 2 THEN @ + 1 ELSE @,
                             !.last = cl]
    /\ UNCHANGED <<cfg, phys, live, stage, prev_stage, cid, initial_potential,
                   normalized_potential, current_step, ret, initial_pos,
                   target_pos, config, loaded, place, peer, run>>

\* the loop is over (line 341): the rest of step() with the contact points
\* collected
StepEnd ==
    /\ sim.phase = "loop"
    /\ sim.polls = sim.ticks
    /\ sim.ticks = sim.simulator_loop
    /\ StepCall({sim.collision_links})
    /\ sim' = [sim EXCEPT !.phase = "returned"]
    /\ UNCHANGED <<config, loaded, place, peer, run>>

\* reset() between two calls of step()
ResetBetween ==
    /\ sim.phase \in {"idle", "returned"}
    /\ Reset

NextTicks == ResetBetween \/ StepBegin \/ SimulatorStep \/ GetContactPoints \/ StepEnd

SpecTicks == InitTicks /\ [][NextTicks]_vars

----------------------------------------------------------------------------
(* Properties.  A property about what a step reports speaks of the calls
   that return; the fields at, stage_at, prev_at, pot_at and step_at of ret
   hold what the call read and left at get_termination() time. *)

\* a call of step() has returned to its caller
Returned == ret.call = "step" /\ ret.raised = ""

\* a call of step() has returned and reported the episode over
Terminal == Returned /\ ret.done

\* the distance get_termination() compared with dist_tol
DistAt == PoiDist(cfg, ret.at[1])

\* a reset() has run to its end, called directly or by a terminal step
ResetDone == (ret.call = "reset" /\ ret.raised = "") \/ (Returned /\ ret.reset_called)

\* C1: when several termination conditions hold on one step the reported
\* cause is success before tip-over before timeout: success is True exactly
\* when the goal was reached, a terminal step carries exactly one success
\* flag with the step count, and a step that is not terminal carries none.
C1_TerminationPriority ==
    Returned =>
        LET goal  == DistAt < DistTol
            fatal == ret.at[1].z > TipBound
            late  == ret.step_at[1] >= cfg.max_step
        IN  /\ ret.done <=> (goal \/ fatal \/ late)
            /\ ret.done => /\ ret.info.success \in {Some(TRUE), Some(FALSE)}
                           /\ ret.info.success = Some(goal)
                           /\ ret.info.episode_length = ret.step_at
            /\ ~ret.done => ret.info.success = None /\ ret.info.episode_length = None

\* C1 witness: goal reached, tipped over and out of steps at once; success
C1_AllThreeAtOnce ==
    /\ Terminal
    /\ DistAt < DistTol
    /\ ret.at[1].z > TipBound
    /\ ret.step_at[1] >= cfg.max_step
    /\ ret.info.success = Some(TRUE)

\* C2: a distance strictly below dist_tol ends the episode with success True
\* and the full success_reward in the reward; a distance equal to or above
\* dist_tol gives neither; the bonus is in the reward exactly when the
\* returned info says success True.
C2_SuccessThreshold ==
    Returned =>
        /\ DistAt < DistTol =>
              /\ ret.done
              /\ ret.info.success = Some(TRUE)
              /\ ret.terms.success = Q(SuccessReward)
        /\ DistAt >= DistTol =>
              /\ ret.terms.success = Zero
              /\ ret.info.success # Some(TRUE)
        /\ ret.terms.success \in {Zero, Q(SuccessReward)}
        /\ ret.terms.success = Q(SuccessReward) <=> ret.info.success = Some(TRUE)
        /\ ret.reward = Some(SumTerms(ret.terms))

\* C2 witness: one step at exactly dist_tol, without bonus and still running
C2_AtThreshold ==
    /\ Returned
    /\ DistAt = DistTol
    /\ ~ret.done
    /\ ret.terms.success = Zero

\* C3: on the step where the stage changed the reward holds success_reward/2
\* once and no shaping term, initial_potential is the new stage's potential
\* measured after this step's physics, normalized_potential is 1.
C3_TransitionStep ==
    (Returned /\ ret.stage_at # ret.prev_at) =>
        /\ ret.terms.milestone = QHalf(SuccessReward)
        /\ ret.terms.shaping = Zero
        /\ ret.pot_at = Some(<<Q(GetPotential(cfg, ret.stage_at[1], ret.at[1])), One>>)
        /\ ret.reward = Some(SumTerms(ret.terms))

\* C3 witness: the step that entered the open-door stage, with the door
\* measured away from the potential of the stage left
C3_EnteredOpenDoor ==
    /\ Returned
    /\ ret.prev_at = Some(0)
    /\ ret.stage_at = Some(1)
    /\ ret.terms.milestone = QHalf(SuccessReward)
    /\ Abs(ret.at[1].door_angle + Pi) # ret.at[1].handle_dist

\* C4: after any reset() the step counter is 0, normalized_potential is 1,
\* initial_potential is the potential of the freshly placed agent measured
\* with the start stage's potential function, and in the multi-stage variant
\* stage and prev_stage are 0, no constraint exists and the door joint is 0.
C4_AfterReset ==
    ResetDone =>
        /\ current_step = 0
        /\ normalized_potential = One
        /\ initial_potential =
              Q(IF cfg.variant = "interactive" THEN phys.handle_dist ELSE PoiDist(cfg, phys))
        /\ cfg.variant = "interactive" =>
              /\ stage = 0 /\ prev_stage = 0
              /\ cid = NoCid /\ live = 0
              /\ phys.door_angle = 0

\* C4 witness: a reset out of the navigate stage, where the base is at
\* another distance from the target than the hand is from the handle
C4_ResetFromLastStage ==
    /\ Returned
    /\ ret.reset_called
    /\ ret.stage_at = Some(2)
    /\ stage = 0
    /\ phys.robot_dist # phys.handle_dist

\* C5: on a step without a stage transition the shaping term is
\* weight * (n_old - P / initial_potential), with n_old the normalized
\* potential before the step and P the potential after its physics; the
\* step leaves normalized_potential = P / initial_potential and does not
\* change initial_potential.
C5_ShapingStep ==
    [][ (ret'.call = "step" /\ ret'.raised = "" /\ ret'.stage_at = ret'.prev_at) =>
          LET P   == GetPotential(cfg, ret'.stage_at[1], ret'.at[1])
              new == QDiv(Q(P), initial_potential)
          IN  /\ ret'.terms.shaping =
                    QMul(Q(PotentialRewardWeight), QSub(normalized_potential, new))
              /\ ret'.terms.milestone = Zero
              /\ ret'.pot_at = Some(<<initial_potential, new>>)
      ]_vars

\* C5 witness: a shaping step that started below the baseline and went
\* back up to it, so the term is the negative of what was earned before
C5_ShapedBackToBaseline ==
    /\ Returned
    /\ ret.stage_at = ret.prev_at
    /\ ret.pot_at = Some(<<Q(MaxHandleDist), One>>)
    /\ ret.terms.shaping = QNorm(-PotentialRewardWeight, MaxHandleDist)

\* C6: within an episode the stage never decreases; it is always one of
\* 0, 1, 2, and only a reset() takes it back, to 0.
C6_StageMonotone ==
    [][ /\ stage' \in 0..2
        /\ stage' < stage =>
              /\ stage' = 0
              /\ (ret'.call = "reset" \/ (ret'.call = "step" /\ ret'.reset_called))
      ]_vars

\* C6 witness: the navigate stage held over a further step with the door
\* reading closed again
C6_StayedInLastStage ==
    /\ Returned
    /\ ~ret.reset_called
    /\ ret.prev_at = Some(2)
    /\ stage = 2
    /\ phys.door_angle >= DoorAngle

\* C7: one step advances the stage by at most one; a step that began in
\* stage 0 never ends in stage 2.
C7_AtMostOneStage ==
    Returned =>
        /\ ret.stage_at[1] - ret.prev_at[1] \in {0, 1}
        /\ ~(ret.prev_at = Some(0) /\ ret.stage_at = Some(2))

\* C8: the constraint handle is non-null exactly in stage 1; a constraint is
\* never created while one exists nor removed while none exists, so both
\* assertions of step() hold.
C8_ConstraintIffStageOne ==
    /\ cid # NoCid <=> stage = 1
    /\ live = IF cid = NoCid THEN 0 ELSE 1
    /\ ret.raised # "AssertionError"

\* C8 witness: the constraint made on entering stage 1 is held over a later
\* step
C8_ConstraintHeld ==
    /\ Returned
    /\ ret.prev_at = Some(1)
    /\ stage = 1
    /\ cid = TheCid
    /\ live = 1

\* C9: a terminal step with automatic reset returns done = True with the
\* terminal step's reward and metadata, the terminal observation under
\* last_observation, the first observation of the new episode as the
\* observation, and leaves the object as reset() leaves it.
C9_AutomaticReset ==
    (Terminal /\ cfg.automatic_reset) =>
        /\ ret.reset_called
        /\ ret.info.last_observation =
              Some(GetState(cfg, ret.stage_at[1], ret.at[1], ret.contacts))
        /\ ret.obs = Some(GetState(cfg, 0, phys, {}))
        /\ ret.info.success # None
        /\ ret.info.episode_length = ret.step_at
        /\ ret.reward = Some(SumTerms(ret.terms))
        /\ current_step = 0
        /\ normalized_potential = One
        /\ initial_potential = Q(GetPotential(cfg, stage, phys))
        /\ cfg.variant = "interactive" => stage = 0 /\ prev_stage = 0 /\ cid = NoCid

\* C9 witness: a terminal step in the open-door stage whose observation
\* differs from the one returned
C9_ResetOutOfOpenDoor ==
    /\ Terminal
    /\ cfg.automatic_reset
    /\ ret.stage_at = Some(1)
    /\ ret.info.last_observation # None
    /\ ret.info.last_observation # ret.obs

\* C10: the last_observation key is present exactly on a terminal step with
\* automatic reset; a terminal step without automatic reset returns its own
\* observation, calls no reset() and leaves the object as the step left it.
C10_LastObservationKey ==
    Returned =>
        /\ ret.info.last_observation # None <=> (ret.done /\ cfg.automatic_reset)
        /\ ~(ret.done /\ cfg.automatic_reset) =>
              /\ ~ret.reset_called
              /\ ret.obs = Some(GetState(cfg, ret.stage_at[1], ret.at[1], ret.contacts))
              /\ phys = ret.at[1]
              /\ stage = ret.stage_at[1]
              /\ prev_stage = ret.prev_at[1]
              /\ current_step = ret.step_at[1]
              /\ <<initial_potential, normalized_potential>> = ret.pot_at[1]
              /\ cid # NoCid <=> stage = 1

\* C10 witness: a terminal step without automatic reset that ends in the
\* open-door stage with the constraint still in place
C10_TerminalLeftAsIs ==
    /\ Terminal
    /\ ~cfg.automatic_reset
    /\ stage = 1
    /\ cid = TheCid
    /\ current_step = ret.step_at[1]

\* C11: on a terminal step episode_length is the number of step() calls
\* since the most recent reset(), the terminal one included: reset() leaves
\* the counter at 0, a step() increments it by exactly one before the
\* termination conditions are evaluated, and nothing else changes it.
C11_EpisodeLength ==
    [][ /\ (ret'.call = "reset") => current_step' = 0
        /\ (ret'.call = "step" /\ ret'.raised # "" /\ ~ret'.reset_called) =>
              current_step' = current_step
        /\ (ret'.call = "step" /\ ret'.raised = "") =>
              /\ ret'.step_at = Some(current_step + 1)
              /\ current_step' = IF ret'.reset_called THEN 0 ELSE current_step + 1
              /\ ret'.done => ret'.info.episode_length = Some(current_step + 1)
      ]_vars

\* C11 witness: a terminal step that is the second call since the reset
C11_SecondStepTerminal ==
    /\ Terminal
    /\ ~ret.reset_called
    /\ ret.info.episode_length = Some(2)
    /\ current_step = 2

\* C12: a step on which the goal is not reached, the agent is not tipped
\* over and the incremented counter is below max_step returns done = False
\* with empty metadata.
C12_NonTerminalStep ==
    (/\ Returned
     /\ DistAt >= DistTol
     /\ ret.at[1].z <= TipBound
     /\ ret.step_at[1] < cfg.max_step) =>
        /\ ~ret.done
        /\ ret.info = EmptyInfo

\* C12 witness: a first step with none of the three conditions
C12_StillRunning ==
    /\ Returned
    /\ DistAt >= DistTol
    /\ ret.at[1].z <= TipBound
    /\ ret.step_at[1] < cfg.max_step
    /\ ~ret.done

\* C13: with max_step = N every step whose count reaches N is terminal, so
\* an episode has ended by its N-th step; the N-th step reports success
\* False when neither the goal nor the tip-over condition holds on it.  In
\* the multi-stage variant every step() after a reset() returns.
C13_TimeoutBound ==
    /\ Returned =>
          /\ ret.step_at[1] >= cfg.max_step => ret.done
          /\ (/\ ret.step_at[1] >= cfg.max_step
              /\ DistAt >= DistTol
              /\ ret.at[1].z <= TipBound) => ret.info.success = Some(FALSE)
          /\ ret.reset_called => ret.step_at[1] <= cfg.max_step
    /\ (cfg.variant = "interactive" /\ ret.call = "step" /\ current_step # NoStep) =>
          ret.raised = ""

\* C13 witness: the N-th step of an episode ends it by timeout alone
C13_TimedOut ==
    /\ Terminal
    /\ ret.step_at[1] = cfg.max_step
    /\ DistAt >= DistTol
    /\ ret.at[1].z <= TipBound
    /\ ret.info.success = Some(FALSE)

\* C14: when the position of interest is strictly closer to the goal after
\* a step than after the step before it, and the second step makes no stage
\* transition, then, with a positive initial potential, the shaping term of
\* the second step is strictly positive.
C14_ApproachIsRewarded ==
    [][ (/\ ret.call = "step" /\ ret.raised = "" /\ ~ret.reset_called
         /\ ret'.call = "step" /\ ret'.raised = ""
         /\ ret'.stage_at = ret'.prev_at
         /\ PoiDist(cfg, ret'.at[1]) < PoiDist(cfg, phys)
         /\ initial_potential[1] > 0 /\ initial_potential[2] > 0) =>
            (ret'.terms.shaping[1] > 0 /\ ret'.terms.shaping[2] > 0)
      ]_vars

\* C15: the shaping division is never evaluated with a zero
\* initial_potential: no step() is given a zero baseline to divide by, and
\* no step() returns a NaN or infinite reward.
C15_FiniteReward ==
    Returned =>
        /\ ret.reward[1][2] # 0
        /\ ret.terms.shaping[2] # 0
        /\ ret.pot_at[1][2][2] # 0

\* a reward has been computed and handed back: by a step() that returned or
\* by a direct call of get_reward()
Rewarded == ret.call \in {"step", "get_reward"} /\ ret.raised = ""

\* C16: in the multi-stage variant a contact with the door handle link never
\* contributes the agent's link to the collision penalty, even when that
\* link is penalized; the penalty is applied exactly when some other contact
\* of the step involves a penalized link.  The base and random variants
\* count every contact.
C16_HandleWhitelist ==
    Rewarded =>
        LET counted == IF cfg.variant = "interactive"
                       THEN {e \in ret.contacts :
                                ~(e.bodyB = "door" /\ e.linkB = DoorHandleLink)}
                       ELSE ret.contacts
            hit     == \E e \in counted : e.linkA \in CollisionLinks
        IN  ret.terms.collision = IF hit THEN cfg.collision_reward_weight ELSE Zero

\* C16 witness: the penalized base link touches the door handle and the end
\* effector touches a wall in one step; no penalty
C16_HandleTouchedNoPenalty ==
    /\ Returned
    /\ cfg.variant = "interactive"
    /\ cfg.collision_reward_weight # Zero
    /\ ret.contacts = {[bodyB |-> "door", linkA |-> BaseLink, linkB |-> DoorHandleLink],
                       [bodyB |-> "wall", linkA |-> EndEffectorLink, linkB |-> DoorHandleLink]}
    /\ ret.terms.collision = Zero

\* C17: the observation returned by step() has bump = True exactly when the
\* base link is the agent's link of a contact point collected during the
\* step, in every variant.
C17_BumpChannel ==
    (Returned /\ ~ret.reset_called) =>
        ret.obs[1].bump = (\E e \in ret.contacts : e.linkA = BaseLink)

\* C18: the reward of every step is the sum of its terms, and the slack
\* reward is one of them in every variant.
C18_SlackInEveryStep ==
    Returned =>
        /\ ret.terms.slack = SlackReward
        /\ ret.reward = Some(SumTerms(ret.terms))

\* C19: in every variant (all share the tip-over test of get_termination)
\* the reward of a step on which the agent is tipped over has
\* success_reward subtracted.
C19_FailurePenalty ==
    (Rewarded /\ FlippedOver(ret.at[1])) =>
        ret.terms.failure = Q(-SuccessReward)

\* C20: the stage-transition check of a step reads the physics state this
\* step's sub-ticks produced: when the step returns, the threshold of the
\* stage it reports has not been crossed by its own reading.
C20_TransitionAfterPhysics ==
    (Returned /\ cfg.variant = "interactive") =>
        /\ ret.stage_at = Some(0) => ret.at[1].handle_dist >= HandleTol
        /\ ret.stage_at = Some(1) => ret.at[1].door_angle >= DoorAngle

\* C22: reset() and step() return an observation in every variant; in a
\* variant without an auxiliary sensor assembling the observation does not
\* abort the call.
C22_ObservationReturned ==
    /\ ret.call = "reset" => (ret.raised = "" /\ ret.obs # None)
    /\ ret.call = "step" => ret.raised # "TypeError"

\* C23: a configuration whose additional_states_dim differs from the length
\* of the state vector is rejected when it is loaded: no reset() and no
\* step() is reached with it.
C23_MismatchRejectedAtLoad ==
    ret.call \in {"reset", "step"} => DimsMatch(cfg)

\* the affine map of [lo, hi] onto [-1, 1] after clipping, in exact arithmetic
AffineMap(x, b) ==
    QDiv(QSub(Clip(x, b[1], b[2]), QDiv(QAdd(b[2], b[1]), Q(2))),
         QDiv(QSub(b[2], b[1]), Q(2)))

\* an observation whose channels are the clipped and mapped values of the
\* reading ph taken in stage stg
NormalizedObs(o, stg, ph) ==
    /\ o.sensor = AffineMap(Q(ph.door_angle), cfg.observation_normalizer.sensor)
    /\ o.auxiliary_sensor =
          AffineMap(IF stg = 1 THEN One ELSE QNeg(One),
                    cfg.observation_normalizer.auxiliary_sensor)
    /\ o.bump \in {QNeg(One), One}
    /\ \A v \in {o.sensor, o.auxiliary_sensor, o.bump} :
          QLe(QNeg(One), v) /\ QLe(v, One)

\* C24: with normalize_observation set, every reset() and step() returns an
\* observation whose every channel is clipped to its bounds and mapped to
\* [-1, 1], in every variant, and so is the terminal observation kept under
\* last_observation.
C24_NormalizedInEveryVariant ==
    cfg.normalize_observation =>
        /\ ret.call = "reset" =>
              (ret.raised = "" /\ NormalizedObs(ret.obs[1], 0, phys))
        /\ (Returned /\ ~ret.reset_called) =>
              NormalizedObs(ret.obs[1], ret.stage_at[1], ret.at[1])
        /\ (Returned /\ ret.reset_called) =>
              /\ NormalizedObs(ret.obs[1], 0, phys)
              /\ NormalizedObs(ret.info.last_observation[1], ret.stage_at[1], ret.at[1])

\* C25: in the multi-stage variant with normalization, a component at the
\* lower bound of its channel becomes -1, at the upper bound +1, at the
\* midpoint 0, below the lower bound -1 and above the upper bound +1; every
\* component lies in [-1, 1] and the map is monotone non-decreasing.
C25_NormalizeBounds ==
    (cfg.variant = "interactive" /\ cfg.normalize_observation
        /\ Returned /\ ~ret.reset_called) =>
        LET b  == cfg.observation_normalizer.sensor
            x  == Q(ret.at[1].door_angle)
            v  == ret.obs[1].sensor
        IN  /\ QLe(x, b[1]) => v = QNeg(One)
            /\ QLe(b[2], x) => v = One
            /\ QAdd(x, x) = QAdd(b[1], b[2]) => v = Zero
            /\ QLe(QNeg(One), v) /\ QLe(v, One)
            /\ \A y \in AngleReadings :
                  QLe(Q(y), x) => QLe(Normalize(Q(y), b), v)

\* C28: step() changes no field of the episode configuration: the initial
\* and the target pose (and the fields held in cfg) are the same after any
\* step() as before it, in every variant, with or without automatic reset.
C28_StepKeepsConfiguration ==
    [][ret'.call = "step" /\ ret' # ret =>
          /\ initial_pos' = initial_pos
          /\ target_pos' = target_pos
          /\ cfg' = cfg]_vars

\* C21: every step() runs round(action_timestep / physics_timestep)
\* sub-ticks (a ratio of 2.7 gives 3) and polls the contact points once
\* after each of them.
C21_TicksPerStep ==
    sim.phase = "returned" =>
        /\ sim.ticks = RoundOf(QDiv(sim.action_timestep, sim.physics_timestep))
        /\ sim.polls = sim.ticks

\* C29: after reload(config) the attributes dist_tol, max_step,
\* success_reward, slack_reward, the four reward weights, collision_links
\* and output are the ones load() derives from the same config, defaults
\* for missing keys included.
C29_ReloadAsLoad ==
    ret.call = "reload" => loaded = LoadAttrs(config)

\* C26: when the placement of a reset() is over, the pose accepted as the
\* start had no contact on any link of the agent during its burst, and in
\* the random variant initial_pos and target_pos are at least 1.0 apart.
C26_AcceptedStartIsFree ==
    place.phase = "placed" =>
        /\ place.burst = {}
        /\ cfg.variant = "random" => L2(initial_pos, target_pos) >= 1

\* a start pose the loop accepts exists, and (random variant) every floor
\* with such a pose has a goal at least 1.0 away from it
Placeable ==
    /\ \E ps \in StartPoses(cfg) : ~Rejected(place.scene[ps])
    /\ cfg.variant = "random" =>
          \A ps \in StartPoses(cfg) :
              ~Rejected(place.scene[ps]) =>
                  \E tp \in FloorPoints(FloorOf(ps[1])) : ~TooClose(ps[1], tp)

\* C27: under fair sampling a reset() begun in a scene with an acceptable
\* start (and goal) eventually returns an observation.
C27_ResetReturns ==
    (place.phase = "start" /\ Placeable)
        ~> (place.phase = "idle" /\ ret.call = "reset" /\ ret.raised = "")

\* the six episode fields of an object
SixFields(s) ==
    <<s.initial_potential, s.normalized_potential, s.stage, s.prev_stage,
      s.cid, s.current_step>>

C31_ContactsOfThisStep ==
    (sim.phase = "returned" /\ Returned) =>
        ret.terms.collision =
            IF sim.hits > 0 THEN cfg.collision_reward_weight ELSE Zero

\* C31 witness: two sub-ticks of the step had the contact, the last one had
\* none; the penalty is counted once
C31_EarlyContactCounted ==
    /\ sim.phase = "returned"
    /\ Returned
    /\ sim.hits = 2
    /\ sim.last = {}
    /\ ret.terms.collision = cfg.collision_reward_weight
    /\ cfg.collision_reward_weight # Zero

C33_PenaltyOnEveryTippedStep ==
    (Returned /\ cfg.variant = "interactive") =>
        /\ ret.terms.failure =
              IF ret.at[1].z > TipBound THEN Q(-SuccessReward) ELSE Zero
        /\ (DistAt < DistTol /\ ret.at[1].z > TipBound) =>
              /\ ret.info.success = Some(TRUE)
              /\ ret.terms.success = Q(SuccessReward)
              /\ QAdd(ret.terms.success, ret.terms.failure) = Zero

\* C33 witness: a step ends at the goal and tipped over; success is
\* reported and the two terms are both in the reward
C33_SuccessCancelled ==
    /\ Returned
    /\ cfg.variant = "interactive"
    /\ DistAt < DistTol
    /\ ret.at[1].z > TipBound
    /\ ret.info.success = Some(TRUE)
    /\ ret.terms.success = Q(SuccessReward)
    /\ ret.terms.failure = Q(-SuccessReward)

\* C34: in the multi-stage variant a step is terminal with success True
\* exactly when the distance to the target is below dist_tol after it,
\* whatever the stage.
C34_SuccessByDistanceAlone ==
    (Returned /\ cfg.variant = "interactive") =>
        ((ret.done /\ ret.info.success = Some(TRUE)) <=> DistAt < DistTol)

\* C34 witness: the first step of an episode succeeds in stage 0: neither
\* the open-door nor the navigate stage was entered
C34_SuccessInStageZero ==
    /\ Terminal
    /\ cfg.variant = "interactive"
    /\ ret.info.success = Some(TRUE)
    /\ ret.step_at = Some(1)
    /\ ret.stage_at = Some(0)
    /\ ret.prev_at = Some(0)

\* C35: a step of the multi-stage variant holds the milestone bonus
\* success_reward / 2, once, exactly when its stage differs from the stage
\* the object was in before the step, which is what prev_stage holds during
\* the step; the stage only moves up, so an episode has at most two such
\* steps, and a step from stage 0 to stage 2 is one of them.
C35_MilestoneOnTransitions ==
    [][(ret'.call = "step" /\ ret'.raised = "" /\ cfg.variant = "interactive") =>
          /\ ret'.prev_at = Some(stage)
          /\ ret'.stage_at[1] \in stage..2
          /\ ret'.terms.milestone =
                IF ret'.stage_at[1] # stage THEN QHalf(SuccessReward) ELSE Zero]_vars

\* C35 witness: one step took the stage from 0 to 2 and holds the bonus once
C35_DoubleTransitionOneBonus ==
    /\ Returned
    /\ ret.prev_at = Some(0)
    /\ ret.stage_at = Some(2)
    /\ ret.terms.milestone = QHalf(SuccessReward)

----------------------------------------------------------------------------
(* Calling step() on after a terminal step, with max_step on either side of
   the number of calls.  run records whether the step before the last one
   was a terminal step of the same episode. *)

\* max_step below and at the number of step() calls of a run
LatchConfigs ==
    {[c EXCEPT !.max_step = m] :
        c \in {d \in Configs : d.variant = "interactive" /\ ~d.automatic_reset},
        m \in {1, MaxSteps}}

InitLatch ==
    /\ cfg \in LatchConfigs
    /\ phys \in Placements(cfg)
    /\ live = 0
    /\ stage = 0
    /\ prev_stage = 0
    /\ cid = NoCid
    /\ initial_potential = Unset
    /\ normalized_potential = Unset
    /\ current_step = NoStep
    /\ ret = RetNone
    /\ LoadedPoses
    /\ Idle

LatchReset ==
    /\ ResetCall(PlacedPoses(cfg, initial_pos, target_pos))
    /\ run' = NoRun
    /\ UNCHANGED <<config, loaded, place, peer, sim>>

LatchStep ==
    /\ StepCall(ContactReadings(cfg))
    /\ run' = [after_terminal |-> ret.call = "step" /\ ret.raised = "" /\ ret.done]
    /\ UNCHANGED <<config, loaded, place, peer, sim>>

NextLatch == LatchReset \/ LatchStep

SpecLatch == InitLatch /\ [][NextLatch]_vars

\* C36: without automatic reset a step() that follows a terminal step() of
\* the same episode is computed like any other: the counter goes up by one,
\* the step is terminal exactly when one of the three conditions holds on
\* it (so always once the counter has reached max_step, and not when a goal
\* or tip-over condition of the step before has gone away below the
\* timeout), a terminal step reports the counter as episode_length, and in
\* the multi-stage variant prev_stage is the stage before the step and a
\* step without transition stores the new normalized potential.
C36_TerminationNotLatched ==
    [][ (/\ ~cfg.automatic_reset
         /\ ret.call = "step" /\ ret.raised = "" /\ ret.done
         /\ ret'.call = "step" /\ ret'.raised = "") =>
          LET n   == current_step + 1
              ph  == ret'.at[1]
              new == QDiv(Q(GetPotential(cfg, ret'.stage_at[1], ph)),
                          initial_potential)
          IN  /\ current_step' = n
              /\ ret'.step_at = Some(n)
              /\ ret'.done <=> \/ PoiDist(cfg, ph) < DistTol
                               \/ FlippedOver(ph)
                               \/ n >= cfg.max_step
              /\ ret'.done => ret'.info.episode_length = Some(n)
              /\ current_step >= cfg.max_step => ret'.done
              /\ cfg.variant = "interactive" =>
                    /\ ret'.prev_at = Some(stage)
                    /\ ret'.stage_at = Some(stage')
                    /\ ret'.stage_at = ret'.prev_at =>
                          normalized_potential' = new
      ]_vars

\* C36 witness: a step that is not terminal although the step before it,
\* in the same episode, was
C36_RunningAfterTerminal ==
    /\ Returned
    /\ ~ret.done
    /\ run # NoRun
    /\ run.after_terminal

\* a step past the timeout, with an episode length above max_step, on
\* which the stage moved
TransitionAfterTimeout ==
    /\ Terminal
    /\ ret.step_at[1] > cfg.max_step
    /\ ret.info.episode_length = Some(current_step)
    /\ ret.stage_at # ret.prev_at

\* C37: until the first reset() has run, the step counter and the two
\* potentials are unassigned, which is why every step() ends in an error
\* and hands no reward back, in every variant; the multi-stage variant
\* comes out of its constructor with stage = 0, prev_stage = 0, cid = None.
C37_StepBeforeResetFails ==
    current_step = NoStep =>
        /\ initial_potential = Unset
        /\ normalized_potential = Unset
        /\ ret.call = "step" => ret.raised # ""
        /\ ret.reward = None
        /\ (cfg.variant = "interactive" /\ ret.call = "none") =>
              /\ stage = 0
              /\ prev_stage = 0
              /\ cid = NoCid

\* the part of C37 about the outcome of the call alone
StepBeforeResetRaises ==
    current_step = NoStep =>
        /\ ret.call = "step" => ret.raised \in {"TypeError", "AttributeError"}
        /\ ret.reward = None

\* a step() of the multi-stage variant issued before any reset() has failed
\* on an attribute reset() would have assigned
FailedBeforeReset ==
    /\ current_step = NoStep
    /\ cfg.variant = "interactive"
    /\ ret.call = "step"
    /\ ret.raised = "AttributeError"

----------------------------------------------------------------------------
(* The energy and stall-torque terms of get_reward, on joint states and
   configured weights.  run holds the joint state the agent reports, the two
   weights and what the last get_reward() added for each term. *)

\* the agent's joints and the values a joint speed or torque reads
NumJoints == 2
MaxJoint == 1

\* config['electricity_reward_weight'], config['stall_torque_reward_weight']
\* (lines 71-72): 0.0 unless configured
EnergyWeights == {QNeg(One), QNorm(-1, 1000), Zero, QNorm(1, 1000), One}

\* the lower clipping bound -0.005 of lines 717 and 721
ClipLow == QNorm(-5, 1000)

RECURSIVE SumTo(_, _)
SumTo(f, n) == IF n = 0 THEN 0 ELSE f[n] + SumTo(f, n - 1)

\* np.abs(joint_speeds * joint_torque).mean(), line 715
ElectricityReward(js, jt) ==
    QNorm(SumTo([i \in 1..NumJoints |-> Abs(js[i] * jt[i])], NumJoints), NumJoints)

\* np.square(joint_torque).mean(), line 719
StallTorqueReward(jt) ==
    QNorm(SumTo([i \in 1..NumJoints |-> jt[i] * jt[i]], NumJoints), NumJoints)

\* Variant that clips to a band around zero
ClipTerm_Symmetric(x) == Clip(x, ClipLow, QNeg(ClipLow))

\* np.clip(x, -0.005, 0), lines 717 and 721
ClipTerm(x) == Clip(x, ClipLow, Zero)

\* what lines 715-721 (multi-stage) and 361-367 (base, random) add to the
\* reward for the two terms
EnergyTerms(v, js, jt, we, ws) ==
    IF v = "interactive"
    THEN [energy |-> ClipTerm(QMul(ElectricityReward(js, jt), we)),
          stall  |-> ClipTerm(QMul(StallTorqueReward(jt), ws))]
    ELSE [energy |-> QMul(Zero, we), stall |-> QMul(Zero, ws)]

EnergyConfigs == {c \in Configs : ~c.automatic_reset /\ c.task = "pointgoal"}

InitEnergy ==
    /\ cfg \in EnergyConfigs
    /\ phys \in {r \in Placements(cfg) : r.robot_dist = MaxDist}
    /\ live = 0
    /\ stage = 0
    /\ prev_stage = 0
    /\ cid = NoCid
    /\ initial_potential = Unset
    /\ normalized_potential = Unset
    /\ current_step = NoStep
    /\ ret = RetNone
    /\ LoadedPoses
    /\ config = NoConfig
    /\ loaded = NoLoaded
    /\ place = NoPlace
    /\ peer = NoPeer
    /\ sim = NoSim
    /\ \E we \in EnergyWeights, ws \in EnergyWeights :
          run = [joint_speeds |-> [i \in 1..NumJoints |-> 0],
                 joint_torque |-> [i \in 1..NumJoints |-> 0],
                 electricity_reward_weight |-> we,
                 stall_torque_reward_weight |-> ws,
                 terms |-> None]

\* the simulator moves a joint
JointsMove ==
    /\ \E i \in 1..NumJoints, v \in -MaxJoint..MaxJoint, t \in -MaxJoint..MaxJoint :
          run' = [run EXCEPT !.joint_speeds[i] = v, !.joint_torque[i] = t,
                             !.terms = None]
    /\ UNCHANGED <<cfg, phys, live, stage, prev_stage, cid, initial_potential,
                   normalized_potential, current_step, ret, initial_pos,
                   target_pos, config, loaded, place, peer, sim>>

\* get_reward() computes the two terms on the joint state it finds
EnergyReward ==
    /\ run.terms = None
    /\ run' = [run EXCEPT !.terms =
                  Some(EnergyTerms(cfg.variant, run.joint_speeds, run.joint_torque,
                                   run.electricity_reward_weight,
                                   run.stall_torque_reward_weight))]
    /\ UNCHANGED <<cfg, phys, live, stage, prev_stage, cid, initial_potential,
                   normalized_potential, current_step, ret, initial_pos,
                   target_pos, config, loaded, place, peer, sim>>

NextEnergy == JointsMove \/ EnergyReward

SpecEnergy == InitEnergy /\ [][NextEnergy]_vars

\* a term within the band [-0.005, 0], and 0 when its weight is not negative
InBand(term, w) ==
    /\ QLe(ClipLow, term)
    /\ QLe(term, Zero)
    /\ QLe(Zero, w) => term = Zero

----------------------------------------------------------------------------
(* wrap_to_pi on the multi-stage state vector.  Angles in units of pi / 2,
   as everywhere; run holds the vector get_additional_states() concatenates
   and the one it returns. *)

\* yaw and the door joint read up to MaxAngle units on either side of zero
MaxAngle == 6
AngleValues == -MaxAngle..MaxAngle

\* np.array([5, 6]), line 630: yaw and door angle
WrapIndices == {5, 6}

\* the indices of the concatenated vector (line 629) and the ones that
\* vary here: the first position entry, yaw and door angle
StateIndices == 0..6
MovingIndices == {0} \cup WrapIndices

\* lines 604-606: x - 2 pi floor((x + pi) / (2 pi)) at the listed indices
WrapToPi(states, indices) ==
    [i \in DOMAIN states |->
        IF i \in indices
        THEN states[i] - Pi * 2 * ((states[i] + Pi) \div (Pi * 2))
        ELSE states[i]]

InitWrap ==
    /\ cfg \in ShapingConfigs
    /\ phys \in {r \in Placements(cfg) : r.robot_dist = MaxDist}
    /\ live = 0
    /\ stage = 0
    /\ prev_stage = 0
    /\ cid = NoCid
    /\ initial_potential = Unset
    /\ normalized_potential = Unset
    /\ current_step = NoStep
    /\ ret = RetNone
    /\ LoadedPoses
    /\ config = NoConfig
    /\ loaded = NoLoaded
    /\ place = NoPlace
    /\ peer = NoPeer
    /\ sim = NoSim
    /\ run = [states |-> [i \in StateIndices |-> 0], wrapped |-> None]

\* the simulator turns the agent or the door, or moves the agent
AnglesMove ==
    /\ \E i \in MovingIndices, v \in AngleValues :
          run' = [states |-> [run.states EXCEPT ![i] = v], wrapped |-> None]
    /\ UNCHANGED <<cfg, phys, live, stage, prev_stage, cid, initial_potential,
                   normalized_potential, current_step, ret, initial_pos,
                   target_pos, config, loaded, place, peer, sim>>

\* get_additional_states(), lines 629-632
GetAdditionalStates ==
    /\ run.wrapped = None
    /\ run' = [run EXCEPT !.wrapped = Some(WrapToPi(run.states, WrapIndices))]
    /\ UNCHANGED <<cfg, phys, live, stage, prev_stage, cid, initial_potential,
                   normalized_potential, current_step, ret, initial_pos,
                   target_pos, config, loaded, place, peer, sim>>

NextWrap == AnglesMove \/ GetAdditionalStates

SpecWrap == InitWrap /\ [][NextWrap]_vars

\* C39: the vector get_additional_states() returns has, at indices 5 and
\* 6, the representative of the yaw and of the door angle modulo 2 pi in
\* (-pi, pi] (so pi for an odd multiple of pi), and every other entry as
\* it was.
C39_WrappedHalfOpenAbove ==
    run.wrapped # None =>
        \A i \in StateIndices :
            IF i \in WrapIndices
            THEN /\ -Pi < run.wrapped[1][i]
                 /\ run.wrapped[1][i] <= Pi
                 /\ (run.wrapped[1][i] - run.states[i]) % (Pi * 2) = 0
            ELSE run.wrapped[1][i] = run.states[i]

\* what holds of the returned vector: the representative in [-pi, pi)
WrappedHalfOpenBelow ==
    run.wrapped # None =>
        \A i \in StateIndices :
            IF i \in WrapIndices
            THEN /\ -Pi <= run.wrapped[1][i]
                 /\ run.wrapped[1][i] < Pi
                 /\ (run.wrapped[1][i] - run.states[i]) % (Pi * 2) = 0
            ELSE run.wrapped[1][i] = run.states[i]

====
